---- MODULE Spec2Model ----
(***************************************************************************)
(* Conductor: session orchestration and event streaming.                   *)
(*                                                                         *)
(*   core/event-bus.ts   per-session bus: buffer, listeners, done flag,    *)
(*                       cleanup timers                                    *)
(*   core/session.ts     persisted session metadata and message logs       *)
(*   api/routes.ts       run-start handlers, background consumer, cancel   *)
(*                                                                         *)
(* BusSpec drives the event bus through its exported functions, the way    *)
(* the unit tests do.  Spec is the orchestrator: HTTP handlers, background *)
(* consumers and timers interleaved by the event loop.                     *)
(***************************************************************************)
EXTENDS Integers, Sequences, FiniteSets, TLC

\* ---------------------------------------------------------------- bounds

\* calls of the bus API in one behaviour of BusSpec
MaxCalls == 6
\* steps of the orchestrator (accepted requests, first events, consumer
\* iterations, consumer ends, opened event streams) in one behaviour
MaxSteps == 5
\* config.concurrency, the configured ceiling
Concurrency == 2
\* lines the adapter reads from one process before its stdout closes
MaxLines == 4
\* events the consumer of one run handles when a whole turn is followed
MaxEvents == 7

\* event-bus.ts: const CLEANUP_DELAY_MS = 60_000
CLEANUP_DELAY_MS == 60000
\* the clock advances by one grace window at a time; a due timer may fire late
TickMs == CLEANUP_DELAY_MS

Sessions == {"s1", "s2", "s3"}
\* every subscribe call brings a listener of its own, every markDone a timer
Listeners == 1..MaxCalls
TimerIds == 1..(MaxCalls + MaxSteps)
ProcIds == 1..MaxSteps

NoBus == [none |-> "bus"]
NoTimer == 0
NoSession == [none |-> "session"]
NoProc == [none |-> "proc"]
NoHandle == 0
NoSub == [none |-> "sub"]
NoResp == [op |-> "none", code |-> ""]
\* messages-<id>.json does not exist
NoFile == <<>>
\* child.exitCode of a process that has not exited, and the code the exit
\* event carries when a signal ended the process
NullCode == -1
\* the files of one workspace root with one session
Files == {"sessions.json", "messages-s1.json"}
\* existsSync(filePath) is false
Absent == [exists |-> FALSE, content |-> <<>>]
\* no read has been made
NoRead == [op |-> "none"]
\* executePrompt has not been called
NoChild ==
    [state |-> "none", adapter |-> "", stdout |-> <<>>, killed |-> FALSE,
     exitCode |-> NullCode]

\* ---------------------------------------------------------------- events

\* types.ts: the ConductorEvent union.  Payloads are kept where the
\* consumer or the bus reads them.
Texts == {<<"t">>}
ToolIds == {"A"}

SessionCreated(sid) == [type |-> "session_created", session_id |-> sid]
TextDelta(text) == [type |-> "text_delta", text |-> text]
ToolUse(id) == [type |-> "tool_use", id |-> id]
ToolResult(id) == [type |-> "tool_result", tool_use_id |-> id]
ResultEvent == [type |-> "result"]
ErrorEvent == [type |-> "error", code |-> "CLAUDE_ERROR"]
RawMessage == [type |-> "raw_message"]

ConductorEvent ==
    {SessionCreated(s) : s \in Sessions}
        \cup {TextDelta(t) : t \in Texts}
        \cup {ToolUse(i) : i \in ToolIds}
        \cup {ToolResult(i) : i \in ToolIds}
        \cup {ResultEvent, ErrorEvent, RawMessage}

VARIABLES
    \* event-bus.ts
    buses,          \* Map sessionId -> SessionBus
    cleanupTimers,  \* Map sessionId -> timer handle
    timers,         \* the runtime's pending timeouts
    busGen,         \* SessionBus objects allocated so far (object identity)
    nCalls,         \* bus API calls made so far by the driver of BusSpec
    \* the listeners (callbacks) handed to subscribe
    subs,           \* listener -> the bus object it subscribed to
    received,       \* listener -> the events its callback was called with
    \* routes.ts
    runningCount,
    runningProcesses, \* Map sessionId -> abort handle (the process it kills)
    procs,          \* executePrompt handles and their consumers
    nRuns,          \* executePrompt calls so far (the serial number of the last process)
    nSteps,         \* orchestrator steps taken so far
    workspaces,     \* workspace directories created
    resp,           \* the HTTP response of the step, if it is a handler step
    \* session.ts (sessions.json, messages-<id>.json)
    store,
    messages,
    \* the spawn adapter (executePrompt, parseStream)
    child,          \* the claude process: the lines read from it, its exit code
    pendingToolId,  \* parseStream's pending tool_use: the id, ...
    pendingToolName, \* ... the name ("" when there is none) ...
    pendingToolInput, \* ... and the input fragments received, concatenated
    emitted,        \* the events the generator has yielded, in order
    \* session.ts, at the level of file contents
    disk,           \* file name -> whether it exists and its text
    readResult      \* how the last loadStore / getMessages call ended

busVars == <<buses, cleanupTimers, timers, busGen, nCalls, subs, received>>
routeVars == <<runningCount, runningProcesses, procs, nRuns, nSteps, workspaces, resp>>
storeVars == <<store, messages>>
adapterVars == <<child, pendingToolId, pendingToolName, pendingToolInput, emitted>>
vars == <<buses, cleanupTimers, timers, busGen, nCalls, subs, received,
          runningCount, runningProcesses, procs, nRuns, nSteps, workspaces, resp,
          store, messages, child, pendingToolId, pendingToolName, pendingToolInput,
          emitted, disk, readResult>>
diskVars == <<disk, readResult>>

\* ------------------------------------------------------------- event bus

\* The state event-bus.ts works on, as one value, so that calls compose.
BusState ==
    [buses |-> buses, cleanupTimers |-> cleanupTimers, timers |-> timers,
     busGen |-> busGen, received |-> received]

SetBusState(B) ==
    /\ buses' = B.buses
    /\ cleanupTimers' = B.cleanupTimers
    /\ timers' = B.timers
    /\ busGen' = B.busGen
    /\ received' = B.received

\* setTimeout returns a handle no pending timer has
FreeTimerId(B) ==
    CHOOSE i \in TimerIds :
        /\ i \notin {t.id : t \in B.timers}
        /\ \A j \in TimerIds : j < i => j \in {t.id : t \in B.timers}

CanArmTimer(B) == \E i \in TimerIds : i \notin {t.id : t \in B.timers}

\* clearTimeout(handle)
clearTimeout(ts, id) == {t \in ts : t.id # id}

\* createBus that leaves the cleanup timer of the earlier entry pending
createBus_keepTimer(B, sid) ==
    [B EXCEPT !.buses[sid] = [buffer |-> <<>>, subscribers |-> {}, done |-> FALSE,
                              gen |-> B.busGen + 1],
              !.busGen = B.busGen + 1]

createBus(B, sid) ==
    LET existingTimer == B.cleanupTimers[sid]
        cleared ==
            IF existingTimer # NoTimer
            THEN [B EXCEPT !.timers = clearTimeout(B.timers, existingTimer),
                           !.cleanupTimers[sid] = NoTimer]
            ELSE B
        bus == [buffer |-> <<>>, subscribers |-> {}, done |-> FALSE,
                gen |-> B.busGen + 1]
    IN  [cleared EXCEPT !.buses[sid] = bus, !.busGen = B.busGen + 1]

getBus(B, sid) == B.buses[sid]

\* publish that calls the listeners of every bus
publish_broadcast(B, sid, event) ==
    LET bus == B.buses[sid]
    IN  IF bus = NoBus
        THEN B
        ELSE [B EXCEPT
                !.buses[sid].buffer = Append(bus.buffer, event),
                !.received = [l \in Listeners |->
                                IF \E s \in Sessions :
                                      B.buses[s] # NoBus /\ l \in B.buses[s].subscribers
                                THEN Append(B.received[l], event)
                                ELSE B.received[l]]]

\* the listeners are called in the Set's insertion order; each only records
\* the event, so the order among them is not observable
publish(B, sid, event) ==
    LET bus == B.buses[sid]
    IN  IF bus = NoBus
        THEN B
        ELSE [B EXCEPT
                !.buses[sid].buffer = Append(bus.buffer, event),
                !.received = [l \in Listeners |->
                                IF l \in bus.subscribers
                                THEN Append(B.received[l], event)
                                ELSE B.received[l]]]

\* subscribe that registers the callback without replaying the buffer
subscribe_noReplay(B, sid, l) ==
    LET bus == B.buses[sid]
    IN  IF bus = NoBus
        THEN B
        ELSE [B EXCEPT !.buses[sid].subscribers = bus.subscribers \cup {l}]

\* subscribe(sessionId, callback) with a callback l that appends to received[l]
subscribe(B, sid, l) ==
    LET bus == B.buses[sid]
    IN  IF bus = NoBus
        THEN B
        ELSE [B EXCEPT
                !.received[l] = B.received[l] \o bus.buffer,
                !.buses[sid].subscribers = bus.subscribers \cup {l}]

\* an unsubscribe function that leaves the callback registered
unsubscribe_noop(B, sid, gen, l) == B

\* the function subscribe returned: deletes the callback from the bus object
\* it subscribed to, which may no longer be the one in the map
unsubscribe(B, sid, gen, l) ==
    LET bus == B.buses[sid]
    IN  IF bus # NoBus /\ bus.gen = gen
        THEN [B EXCEPT !.buses[sid].subscribers = bus.subscribers \ {l}]
        ELSE B

\* markDone that arms the cleanup but does not set the flag
markDone_noFlag(B, sid) ==
    LET bus == B.buses[sid]
        id == FreeTimerId(B)
    IN  IF bus = NoBus
        THEN B
        ELSE [B EXCEPT
                !.cleanupTimers[sid] = id,
                !.timers = B.timers \cup
                    {[id |-> id, sid |-> sid, left |-> CLEANUP_DELAY_MS,
                      gen |-> bus.gen]}]

markDone(B, sid) ==
    LET bus == B.buses[sid]
        id == FreeTimerId(B)
    IN  IF bus = NoBus
        THEN B
        ELSE [B EXCEPT
                !.buses[sid].done = TRUE,
                !.cleanupTimers[sid] = id,
                !.timers = B.timers \cup
                    {[id |-> id, sid |-> sid, left |-> CLEANUP_DELAY_MS,
                      gen |-> bus.gen]}]

\* the callback markDone hands to setTimeout
cleanupCallback(B, sid) ==
    [B EXCEPT !.cleanupTimers[sid] = NoTimer, !.buses[sid] = NoBus]

\* ----------------------------------------------------------- the runtime

\* a timeout that fires without waiting for its delay
TimerFire_early(t) ==
    /\ t \in timers
    /\ SetBusState(cleanupCallback([BusState EXCEPT !.timers = timers \ {t}], t.sid))
    /\ resp' = NoResp
    /\ UNCHANGED <<nCalls, subs, runningCount, runningProcesses, procs, nRuns, nSteps,
                   workspaces, store, messages>>
    /\ UNCHANGED <<adapterVars, diskVars>>

\* A pending timeout whose delay has elapsed fires.
TimerFire(t) ==
    /\ t \in timers
    /\ t.left = 0
    /\ SetBusState(cleanupCallback([BusState EXCEPT !.timers = timers \ {t}], t.sid))
    /\ resp' = NoResp
    /\ UNCHANGED <<nCalls, subs, runningCount, runningProcesses, procs, nRuns, nSteps,
                   workspaces, store, messages>>
    /\ UNCHANGED <<adapterVars, diskVars>>

\* Time passes: every pending timeout is TickMs closer.
Tick ==
    /\ \E t \in timers : t.left > 0
    /\ timers' = {[t EXCEPT !.left = IF t.left > TickMs THEN t.left - TickMs ELSE 0] :
                    t \in timers}
    /\ resp' = NoResp
    /\ UNCHANGED <<buses, cleanupTimers, busGen, nCalls, subs, received, runningCount,
                   runningProcesses, procs, nRuns, nSteps, workspaces, store, messages>>
    /\ UNCHANGED <<adapterVars, diskVars>>

\* ------------------------------------------------- bus driven by its API

Call ==
    /\ nCalls < MaxCalls
    /\ nCalls' = nCalls + 1

BusCreate(sid) ==
    /\ Call
    /\ SetBusState(createBus(BusState, sid))
    /\ UNCHANGED <<subs, routeVars, storeVars>>
    /\ UNCHANGED <<adapterVars, diskVars>>

BusPublish(sid, e) ==
    /\ Call
    /\ SetBusState(publish(BusState, sid, e))
    /\ UNCHANGED <<subs, routeVars, storeVars>>
    /\ UNCHANGED <<adapterVars, diskVars>>

\* subscribe with a fresh callback l
BusSubscribe(sid, l) ==
    /\ Call
    /\ subs[l] = NoSub
    /\ \A k \in Listeners : k < l => subs[k] # NoSub
    /\ SetBusState(subscribe(BusState, sid, l))
    /\ subs' = [subs EXCEPT ![l] =
                   IF buses[sid] = NoBus
                   THEN [sid |-> sid, gen |-> 0, active |-> FALSE, replayed |-> 0]
                   ELSE [sid |-> sid, gen |-> buses[sid].gen, active |-> TRUE,
                         replayed |-> Len(buses[sid].buffer)]]
    /\ UNCHANGED <<routeVars, storeVars>>
    /\ UNCHANGED <<adapterVars, diskVars>>

\* the function that subscribe returned to l is called
BusUnsubscribe(l) ==
    /\ Call
    /\ subs[l] # NoSub
    /\ subs[l].active
    /\ SetBusState(unsubscribe(BusState, subs[l].sid, subs[l].gen, l))
    /\ subs' = [subs EXCEPT ![l].active = FALSE]
    /\ UNCHANGED <<routeVars, storeVars>>
    /\ UNCHANGED <<adapterVars, diskVars>>

BusMarkDone(sid) ==
    /\ Call
    /\ SetBusState(markDone(BusState, sid))
    /\ UNCHANGED <<subs, routeVars, storeVars>>
    /\ UNCHANGED <<adapterVars, diskVars>>

\* the bus API is driven with two distinguishable events
BusSessions == {"s1", "s2"}
BusEvents == {TextDelta(<<"t">>), ResultEvent}

Init ==
    /\ buses = [s \in Sessions |-> NoBus]
    /\ cleanupTimers = [s \in Sessions |-> NoTimer]
    /\ timers = {}
    /\ busGen = 0
    /\ nCalls = 0
    /\ subs = [l \in Listeners |-> NoSub]
    /\ received = [l \in Listeners |-> <<>>]
    /\ runningCount = 0
    /\ runningProcesses = [s \in Sessions |-> NoHandle]
    /\ procs = [p \in ProcIds |-> NoProc]
    /\ nRuns = 0
    /\ nSteps = 0
    /\ workspaces = 0
    /\ resp = NoResp
    /\ store = [s \in Sessions |-> NoSession]
    /\ messages = [s \in Sessions |-> NoFile]
    /\ child = NoChild
    /\ pendingToolId = ""
    /\ pendingToolName = ""
    /\ pendingToolInput = <<>>
    /\ emitted = <<>>
    /\ disk = [f \in Files |-> Absent]
    /\ readResult = NoRead

BusNext ==
    \/ \E s \in BusSessions : BusCreate(s)
    \/ \E s \in BusSessions, e \in BusEvents : BusPublish(s, e)
    \/ \E s \in BusSessions, l \in Listeners : BusSubscribe(s, l)
    \/ \E l \in Listeners : BusUnsubscribe(l)
    \/ \E s \in BusSessions : BusMarkDone(s)
    \/ \E t \in timers : TimerFire(t)
    \/ Tick

BusSpec == Init /\ [][BusNext]_vars

\* --------------------------------------------------------- session store

\* run_message_offset: null
NullOffset == -1

\* session.ts: SessionMetadata, reduced to the fields the orchestrator writes
Metadata(status, offset) == [status |-> status, run_message_offset |-> offset]

saveSession(st, sid, metadata) == [st EXCEPT ![sid] = metadata]

getSession(st, sid) == st[sid]

updateSessionStatus(st, sid, status) ==
    IF st[sid] # NoSession THEN [st EXCEPT ![sid].status = status] ELSE st

updateRunMessageOffset(st, sid, offset) ==
    IF st[sid] # NoSession THEN [st EXCEPT ![sid].run_message_offset = offset] ELSE st

\* the loop of recoverSessions over the keys `ids` still to visit
RECURSIVE recoverLoop(_, _, _)
recoverLoop(st, ids, recovered) ==
    IF ids = {}
    THEN [store |-> st, recovered |-> recovered]
    ELSE LET id == CHOOSE i \in ids : TRUE
         IN  IF st[id].status = "running"
             THEN recoverLoop([st EXCEPT ![id].status = "idle"], ids \ {id},
                              recovered + 1)
             ELSE recoverLoop(st, ids \ {id}, recovered)

\* recoverSessions that resets every session it finds
recoverSessions_all(st) ==
    LET ids == {s \in DOMAIN st : st[s] # NoSession}
    IN  [store |-> [s \in DOMAIN st |->
                       IF s \in ids THEN [st[s] EXCEPT !.status = "idle"] ELSE st[s]],
         recovered |-> Cardinality(ids)]

\* recoverSessions: the store it leaves on disk and the number it returns
recoverSessions(st) ==
    recoverLoop(st, {s \in DOMAIN st : st[s] # NoSession}, 0)

\* JSON.stringify of one content block: a tagged tuple
stringifyBlock(block) ==
    CASE block.type = "text" -> <<"text", block.text>>
      [] block.type = "tool_use" -> <<"tool_use", block.id>>
      [] block.type = "tool_result" -> <<"tool_result", block.tool_use_id>>

\* JSON.stringify(messages): what writeFileSync puts in the file
stringify(log) ==
    [i \in 1..Len(log) |->
        <<log[i].role,
          [j \in 1..Len(log[i].content) |-> stringifyBlock(log[i].content[j])]>>]

\* ContentBlockSchema: the discriminated union on `type`
ContentBlockSchema(t) == t[1] \in {"text", "tool_use", "tool_result"}

\* MessageSchema: role and content array
MessageSchema(m) ==
    /\ m[1] \in {"user", "assistant"}
    /\ \A j \in 1..Len(m[2]) : ContentBlockSchema(m[2][j])

parseBlock(t) ==
    CASE t[1] = "text" -> [type |-> "text", text |-> t[2]]
      [] t[1] = "tool_use" -> [type |-> "tool_use", id |-> t[2]]
      [] t[1] = "tool_result" -> [type |-> "tool_result", tool_use_id |-> t[2]]

\* MessagesSchema.safeParse(JSON.parse(content)), [] when it fails
parseMessages(content) ==
    IF \A i \in 1..Len(content) : MessageSchema(content[i])
    THEN [i \in 1..Len(content) |->
             [role |-> content[i][1],
              content |-> [j \in 1..Len(content[i][2]) |-> parseBlock(content[i][2][j])]]]
    ELSE <<>>

\* ms: the message files by session id
getMessages(ms, sid) ==
    IF ms[sid] = NoFile THEN <<>> ELSE parseMessages(ms[sid])

\* appendContentBlock that starts a new message for every block
appendContentBlock_noMerge(ms, sid, role, block) ==
    [ms EXCEPT ![sid] =
        stringify(Append(getMessages(ms, sid), [role |-> role, content |-> <<block>>]))]

appendContentBlock(ms, sid, role, block) ==
    LET log == getMessages(ms, sid)
        n == Len(log)
    IN  [ms EXCEPT ![sid] =
            stringify(IF n > 0 /\ log[n].role = role
                      THEN [log EXCEPT ![n].content = Append(log[n].content, block)]
                      ELSE Append(log, [role |-> role, content |-> <<block>>]))]

TextBlock(text) == [type |-> "text", text |-> text]
ToolUseBlock(id) == [type |-> "tool_use", id |-> id]
ToolResultBlock(id) == [type |-> "tool_result", tool_use_id |-> id]

\* the task text of a request
Prompt == <<"p">>

\* ----------------------------------------------------------- orchestrator

Response(op, code) == [op |-> op, code |-> code]

\* executePrompt returns a handle on a new process: the nRuns-th one
NewProcId == nRuns + 1

\* the capacity check of both run-start handlers, without the check
AtCapacity_never == FALSE

\* the capacity check letting one run too many through
AtCapacity_offByOne == runningCount > Concurrency

\* `runningCount >= config.concurrency`
AtCapacity == runningCount >= Concurrency

\* the busy check done on the persisted status instead of the registry
SessionBusy_byStatus(sessionId) == store[sessionId].status = "running"

\* the busy check of the follow-up handler, without the check
SessionBusy_never(sessionId) == FALSE

\* `runningProcesses.has(sessionId)`
SessionBusy(sessionId) == runningProcesses[sessionId] # NoHandle

\* the status reset of the consumer without its `status === 'running'` test
StatusAfterRun_always(session) == "idle"

\* the status a finished consumer leaves: idle, unless the session is no
\* longer running (it was cancelled)
StatusAfterRun(session) ==
    IF session.status = "running" THEN "idle" ELSE session.status

\* phase "first": POST /sessions awaits the first event
\* phase "consuming": a background consumer iterates the events
\* phase "orphan": the handle was dropped with the process still running
Proc(phase, sid, skip) ==
    [phase |-> phase, sid |-> sid, skip |-> skip, acc |-> <<>>, killed |-> FALSE]

\* persistence that appends a tool_use without flushing the text before it
Persist_noFlush(ms, sid, acc, event) ==
    CASE event.type = "tool_use" ->
            appendContentBlock(ms, sid, "assistant", ToolUseBlock(event.id))
      [] event.type = "tool_result" ->
            appendContentBlock(ms, sid, "user", ToolResultBlock(event.tool_use_id))
      [] event.type = "result" ->
            IF acc # <<>>
            THEN appendContentBlock(ms, sid, "assistant", TextBlock(acc))
            ELSE ms
      [] OTHER -> ms

\* the loop body of startBackgroundConsumer up to publish: persistence
Persist(ms, sid, acc, event) ==
    CASE event.type = "tool_use" ->
            appendContentBlock(
                IF acc # <<>>
                THEN appendContentBlock(ms, sid, "assistant", TextBlock(acc))
                ELSE ms,
                sid, "assistant", ToolUseBlock(event.id))
      [] event.type = "tool_result" ->
            appendContentBlock(ms, sid, "user", ToolResultBlock(event.tool_use_id))
      [] event.type = "result" ->
            IF acc # <<>>
            THEN appendContentBlock(ms, sid, "assistant", TextBlock(acc))
            ELSE ms
      [] OTHER -> ms

\* accumulation that keeps the text after it was flushed
Accumulate_noReset(acc, event) ==
    IF event.type = "text_delta" THEN acc \o event.text ELSE acc

\* accumulatedText after the iteration for `event`
Accumulate(acc, event) ==
    CASE event.type = "text_delta" -> acc \o event.text
      [] event.type \in {"tool_use", "result"} -> <<>>
      [] OTHER -> acc

\* what the adapter of a run on session sid can yield
RunEvents(sid) ==
    {e \in ConductorEvent : e.type = "session_created" => e.session_id = sid}

Step ==
    /\ nSteps < MaxSteps
    /\ nSteps' = nSteps + 1

\* a follow-up run that hands session_created on to the consumer
skipSessionCreated_never(p, event) == FALSE

\* a wrapper that hands none of the events of a follow-up run on
skipSessionCreated_all(p, event) == procs[p].skip

\* the wrapper around the events of a follow-up run: `continue` on
\* session_created
skipSessionCreated(p, event) == procs[p].skip /\ event.type = "session_created"

\* One iteration of `for await (const event of events)`: the adapter of
\* process p yields `event`.  On a follow-up run the skipSessionCreated
\* wrapper swallows session_created before the consumer sees it.
Consume(p, event) ==
    /\ procs[p] # NoProc
    /\ procs[p].phase = "consuming"
    /\ LET sid == procs[p].sid
       IN  IF skipSessionCreated(p, event)
           THEN UNCHANGED <<procs, messages, buses, cleanupTimers, timers, busGen, received>>
           ELSE /\ messages' = Persist(messages, sid, procs[p].acc, event)
                /\ procs' = [procs EXCEPT ![p].acc = Accumulate(procs[p].acc, event)]
                /\ SetBusState(publish(BusState, sid, event))
    /\ resp' = NoResp
    /\ UNCHANGED <<nCalls, subs, runningCount, runningProcesses, nRuns, workspaces, store>>
    /\ UNCHANGED <<adapterVars, diskVars>>

\* a consumer iteration, as a step of the orchestrator
ConsumerEvent(p, event) ==
    /\ procs[p] # NoProc
    /\ event \in RunEvents(procs[p].sid)
    /\ Step
    /\ Consume(p, event)

\* The finally block of startBackgroundConsumer.  `how` is the way the
\* iteration ended: the generator returned (result, process exit, abort) or
\* it threw.
ConsumerFinally(p, how) ==
    /\ procs[p] # NoProc
    /\ procs[p].phase = "consuming"
    /\ how \in {"return", "throw"}
    /\ LET sid == procs[p].sid
           acc == procs[p].acc
           session == getSession(store, sid)
       IN  /\ messages' = IF acc # <<>>
                          THEN appendContentBlock(messages, sid, "assistant", TextBlock(acc))
                          ELSE messages
           /\ runningCount' = runningCount - 1
           /\ runningProcesses' = [runningProcesses EXCEPT ![sid] = NoHandle]
           /\ store' = IF session # NoSession
                       THEN updateSessionStatus(store, sid, StatusAfterRun(session))
                       ELSE store
           /\ SetBusState(markDone(BusState, sid))
    /\ procs' = [procs EXCEPT ![p] = NoProc]
    /\ resp' = NoResp
    /\ UNCHANGED <<nCalls, subs, nRuns, workspaces>>
    /\ UNCHANGED <<adapterVars, diskVars>>

\* the end of a run, as a step of the orchestrator
ConsumerEnd(p, how) ==
    /\ Step
    /\ ConsumerFinally(p, how)

\* POST /sessions that takes its slot before provisioning the workspace and
\* keeps it when provisioning fails
CreateSession_slotFirst(clone) ==
    /\ UNCHANGED <<busVars, storeVars, runningProcesses>>
    /\ IF AtCapacity
       THEN /\ resp' = Response("create", "CONCURRENCY_LIMIT")
            /\ UNCHANGED <<runningCount, procs, nRuns, nSteps, workspaces>>
       ELSE IF ~clone
       THEN /\ Step
            /\ runningCount' = runningCount + 1
            /\ resp' = Response("create", "CLONE_FAILED")
            /\ UNCHANGED <<procs, nRuns, workspaces>>
       ELSE /\ Step
            /\ workspaces' = workspaces + 1
            /\ runningCount' = runningCount + 1
            /\ nRuns' = nRuns + 1
            /\ procs' = [procs EXCEPT ![NewProcId] = Proc("first", "", FALSE)]
            /\ resp' = NoResp
    /\ UNCHANGED <<adapterVars, diskVars>>

\* POST /sessions with a valid body, up to `await handle.events.next()`.
\*   clone: whether createWorkspace succeeds
CreateSession(clone) ==
    /\ UNCHANGED <<busVars, storeVars, runningProcesses>>
    /\ IF AtCapacity
       THEN /\ resp' = Response("create", "CONCURRENCY_LIMIT")
            /\ UNCHANGED <<runningCount, procs, nRuns, nSteps, workspaces>>
       ELSE IF ~clone
       THEN /\ resp' = Response("create", "CLONE_FAILED")
            /\ UNCHANGED <<runningCount, procs, nRuns, nSteps, workspaces>>
       ELSE /\ Step
            /\ workspaces' = workspaces + 1
            /\ runningCount' = runningCount + 1
            /\ nRuns' = nRuns + 1
            /\ procs' = [procs EXCEPT ![NewProcId] = Proc("first", "", FALSE)]
            /\ resp' = NoResp
    /\ UNCHANGED <<adapterVars, diskVars>>

\* the agent assigns a new session an id no session has
FreshSessionId(sid) == store[sid] = NoSession

FirstOutcomes ==
    {[kind |-> "done"], [kind |-> "throw"]}
        \cup {[kind |-> "event", event |-> e] : e \in ConductorEvent}

\* the failure paths that keep the concurrency slot
CreateFailed_leak ==
    /\ resp' = Response("create", "SESSION_CREATE_FAILED")
    /\ UNCHANGED <<buses, cleanupTimers, timers, busGen, received, runningCount,
                   runningProcesses, storeVars>>
    /\ UNCHANGED <<adapterVars, diskVars>>

\* the three failure paths of POST /sessions after executePrompt:
\* `runningCount--` and the 500 response
CreateFailed ==
    /\ runningCount' = runningCount - 1
    /\ resp' = Response("create", "SESSION_CREATE_FAILED")
    /\ UNCHANGED <<buses, cleanupTimers, timers, busGen, received,
                   runningProcesses, storeVars>>
    /\ UNCHANGED <<adapterVars, diskVars>>

\* POST /sessions from the first event on.
CreateSessionFirst(p, first) ==
    /\ procs[p] # NoProc
    /\ procs[p].phase = "first"
    /\ Step
    /\ UNCHANGED <<nCalls, subs, nRuns, workspaces>>
    /\ IF first.kind \in {"done", "throw"}
       THEN \* the generator is finished: no process is left behind
            /\ CreateFailed
            /\ procs' = [procs EXCEPT ![p] = NoProc]
       ELSE IF first.event.type # "session_created"
       THEN \* the handle is dropped; nothing aborts the process
            /\ CreateFailed
            /\ procs' = [procs EXCEPT ![p].phase = "orphan"]
       ELSE LET sessionId == first.event.session_id
            IN  /\ FreshSessionId(sessionId)
                /\ runningProcesses' = [runningProcesses EXCEPT ![sessionId] = p]
                /\ store' = saveSession(store, sessionId, Metadata("running", 1))
                /\ messages' = appendContentBlock(messages, sessionId, "user",
                                                  TextBlock(Prompt))
                /\ SetBusState(publish(createBus(BusState, sessionId), sessionId,
                                       first.event))
                /\ procs' = [procs EXCEPT ![p] = Proc("consuming", sessionId, FALSE)]
                /\ resp' = Response("create", "OK")
                /\ UNCHANGED runningCount
    /\ UNCHANGED <<adapterVars, diskVars>>

\* POST /sessions/:id/messages with a valid body
FollowUp(sessionId) ==
    /\ UNCHANGED <<nCalls, subs, workspaces>>
    /\ IF getSession(store, sessionId) = NoSession
       THEN /\ resp' = Response("message", "SESSION_NOT_FOUND")
            /\ UNCHANGED <<buses, cleanupTimers, timers, busGen, received, runningCount,
                           runningProcesses, procs, nRuns, nSteps, storeVars>>
       ELSE IF SessionBusy(sessionId)
       THEN /\ resp' = Response("message", "SESSION_BUSY")
            /\ UNCHANGED <<buses, cleanupTimers, timers, busGen, received, runningCount,
                           runningProcesses, procs, nRuns, nSteps, storeVars>>
       ELSE IF AtCapacity
       THEN /\ resp' = Response("message", "CONCURRENCY_LIMIT")
            /\ UNCHANGED <<buses, cleanupTimers, timers, busGen, received, runningCount,
                           runningProcesses, procs, nRuns, nSteps, storeVars>>
       ELSE LET p == NewProcId
                ms == appendContentBlock(messages, sessionId, "user", TextBlock(Prompt))
                offset == Len(getMessages(ms, sessionId))
            IN  /\ Step
                /\ nRuns' = nRuns + 1
                /\ runningCount' = runningCount + 1
                /\ messages' = ms
                /\ store' = updateRunMessageOffset(
                                updateSessionStatus(store, sessionId, "running"),
                                sessionId, offset)
                /\ procs' = [procs EXCEPT ![p] = Proc("consuming", sessionId, TRUE)]
                /\ runningProcesses' = [runningProcesses EXCEPT ![sessionId] = p]
                /\ SetBusState(createBus(BusState, sessionId))
                /\ resp' = Response("message", "OK")
    /\ UNCHANGED <<adapterVars, diskVars>>

\* handle.abort of process p: the process is terminated if it is running
abort(ps, p) ==
    IF ps[p] # NoProc THEN [ps EXCEPT ![p].killed = TRUE] ELSE ps

\* cancel that aborts and leaves the status to the consumer
Cancel_deferred(sessionId) ==
    /\ UNCHANGED <<busVars, messages, runningCount, runningProcesses, nRuns, workspaces>>
    /\ IF getSession(store, sessionId) = NoSession
       THEN /\ resp' = Response("cancel", "SESSION_NOT_FOUND")
            /\ UNCHANGED <<procs, store, nSteps>>
       ELSE IF runningProcesses[sessionId] = NoHandle
       THEN /\ resp' = Response("cancel", "SESSION_IDLE")
            /\ UNCHANGED <<procs, store, nSteps>>
       ELSE /\ Step
            /\ procs' = abort(procs, runningProcesses[sessionId])
            /\ resp' = Response("cancel", "OK")
            /\ UNCHANGED store
    /\ UNCHANGED <<adapterVars, diskVars>>

\* cancel without the SESSION_IDLE rejection
Cancel_noIdleCheck(sessionId) ==
    /\ UNCHANGED <<busVars, messages, runningCount, runningProcesses, nRuns, workspaces>>
    /\ IF getSession(store, sessionId) = NoSession
       THEN /\ resp' = Response("cancel", "SESSION_NOT_FOUND")
            /\ UNCHANGED <<procs, store, nSteps>>
       ELSE /\ Step
            /\ procs' = IF runningProcesses[sessionId] = NoHandle
                        THEN procs
                        ELSE abort(procs, runningProcesses[sessionId])
            /\ store' = updateSessionStatus(store, sessionId, "cancelled")
            /\ resp' = Response("cancel", "OK")
    /\ UNCHANGED <<adapterVars, diskVars>>

\* POST /sessions/:id/cancel
Cancel(sessionId) ==
    /\ UNCHANGED <<busVars, messages, runningCount, runningProcesses, nRuns, workspaces>>
    /\ IF getSession(store, sessionId) = NoSession
       THEN /\ resp' = Response("cancel", "SESSION_NOT_FOUND")
            /\ UNCHANGED <<procs, store, nSteps>>
       ELSE IF runningProcesses[sessionId] = NoHandle
       THEN /\ resp' = Response("cancel", "SESSION_IDLE")
            /\ UNCHANGED <<procs, store, nSteps>>
       ELSE /\ Step
            /\ procs' = abort(procs, runningProcesses[sessionId])
            /\ store' = updateSessionStatus(store, sessionId, "cancelled")
            /\ resp' = Response("cancel", "OK")
    /\ UNCHANGED <<adapterVars, diskVars>>

\* The server process dies and is started again: what lived in memory is
\* gone (counter, registry, buses, timers, consumers, connections), what is
\* on disk stays, and index.ts runs recoverSessions before serving.
CrashRestart ==
    /\ runningCount' = 0
    /\ runningProcesses' = [s \in Sessions |-> NoHandle]
    /\ procs' = [p \in ProcIds |-> NoProc]
    /\ buses' = [s \in Sessions |-> NoBus]
    /\ cleanupTimers' = [s \in Sessions |-> NoTimer]
    /\ timers' = {}
    /\ subs' = [l \in Listeners |-> NoSub]
    /\ received' = [l \in Listeners |-> <<>>]
    /\ store' = recoverSessions(store).store
    /\ resp' = IF recoverSessions(store).recovered > 0
               THEN Response("startup", "RECOVERED")
               ELSE Response("startup", "CLEAN")
    /\ UNCHANGED <<busGen, nCalls, nRuns, nSteps, workspaces, messages>>
    /\ UNCHANGED <<adapterVars, diskVars>>

\* ------------------------------------- message log driven by its API

StoreSessions == {"s1", "s2"}
StoreRoles == {"user", "assistant"}
StoreBlocks == {TextBlock(<<"t">>), ToolResultBlock("A")}

\* one call of appendContentBlock
StoreAppend(sid, role, block) ==
    /\ Call
    /\ messages' = appendContentBlock(messages, sid, role, block)
    /\ resp' = NoResp
    /\ UNCHANGED <<buses, cleanupTimers, timers, busGen, subs, received, runningCount,
                   runningProcesses, procs, nRuns, nSteps, workspaces, store>>
    /\ UNCHANGED <<adapterVars, diskVars>>

StoreNext ==
    \E sid \in StoreSessions, role \in StoreRoles, block \in StoreBlocks :
        StoreAppend(sid, role, block)

StoreSpec == Init /\ [][StoreNext]_vars

Next ==
    \/ CrashRestart
    \/ \E c \in BOOLEAN : CreateSession(c)
    \/ \E p \in ProcIds, o \in FirstOutcomes : CreateSessionFirst(p, o)
    \/ \E s \in Sessions : FollowUp(s)
    \/ \E s \in Sessions : Cancel(s)
    \/ \E p \in ProcIds, e \in ConductorEvent : ConsumerEvent(p, e)
    \/ \E p \in ProcIds, how \in {"return", "throw"} : ConsumerEnd(p, how)
    \/ \E t \in timers : TimerFire(t)
    \/ Tick

Spec == Init /\ [][Next]_vars

\* ------------------------------------------------ one run, in full

\* One new session whose agent keeps to its protocol: text at any time, a
\* tool_use with an id not used before, a tool_result for a tool_use not
\* answered yet, and nothing after result.
TurnToolIds == {"A", "B"}

Published(sid, type) ==
    {buses[sid].buffer[i] : i \in {j \in 1..Len(buses[sid].buffer) :
                                      buses[sid].buffer[j].type = type}}

TurnEvents(sid) ==
    IF Published(sid, "result") # {}
    THEN {}
    ELSE {TextDelta(<<"t">>), ResultEvent}
            \cup {ToolUse(i) : i \in {k \in TurnToolIds :
                                        ToolUse(k) \notin Published(sid, "tool_use")}}
            \cup {ToolResult(i) : i \in {k \in TurnToolIds :
                        /\ ToolUse(k) \in Published(sid, "tool_use")
                        /\ ToolResult(k) \notin Published(sid, "tool_result")}}

\* a consumer iteration of the run followed in full
TurnEvent(p, event) ==
    /\ procs[p] # NoProc
    /\ procs[p].phase = "consuming"
    /\ buses[procs[p].sid] # NoBus
    /\ Len(buses[procs[p].sid].buffer) <= MaxEvents
    /\ event \in TurnEvents(procs[p].sid)
    /\ Consume(p, event)
    /\ UNCHANGED nSteps

TurnNext ==
    \/ CreateSession(TRUE)
    \/ \E p \in ProcIds :
          CreateSessionFirst(p, [kind |-> "event", event |-> SessionCreated("s1")])
    \/ \E p \in ProcIds, e \in ConductorEvent \cup {ToolUse("B"), ToolResult("B")} :
          TurnEvent(p, e)
    \/ \E p \in ProcIds : ConsumerEnd(p, "return")

TurnSpec == Init /\ [][TurnNext]_vars

\* ------------------------------------------- GET /sessions/:id/events

\* the `bus.done` the handler polls: the flag of the bus object it looked
\* up.  An object that left the map had been marked done before (checked as
\* ReplacedBusWasDone), and nothing resets the flag.
CapturedDone(l) ==
    LET bus == buses[subs[l].sid]
    IN  IF bus # NoBus /\ bus.gen = subs[l].gen THEN bus.done ELSE TRUE

\* The handler up to the first turn of its wait: 404 without a bus;
\* otherwise the connection gets callback l, which is subscribed (with
\* replay), and if the bus is already done the wait resolves at once and
\* the callback is unsubscribed again.
GetEvents(sessionId, l) ==
    /\ subs[l] = NoSub
    /\ \A k \in Listeners : k < l => subs[k] # NoSub
    /\ UNCHANGED <<nCalls, runningCount, runningProcesses, procs, nRuns, workspaces,
                   storeVars>>
    /\ LET bus == getBus(BusState, sessionId)
       IN  IF bus = NoBus
           THEN /\ resp' = Response("events", "NO_ACTIVE_STREAM")
                /\ UNCHANGED <<buses, cleanupTimers, timers, busGen, received, subs,
                               nSteps>>
           ELSE /\ Step
                /\ resp' = Response("events", "OK")
                /\ SetBusState(
                      IF bus.done
                      THEN unsubscribe(subscribe(BusState, sessionId, l),
                                       sessionId, bus.gen, l)
                      ELSE subscribe(BusState, sessionId, l))
                /\ subs' = [subs EXCEPT ![l] =
                               [sid |-> sessionId, gen |-> bus.gen,
                                active |-> ~bus.done,
                                replayed |-> Len(bus.buffer), closed |-> FALSE]]
    /\ UNCHANGED <<adapterVars, diskVars>>

\* an open connection that the run would lose when the client goes away
ClientAbort_killsRun(l) ==
    /\ subs[l] # NoSub
    /\ subs[l].active
    /\ SetBusState(unsubscribe(BusState, subs[l].sid, subs[l].gen, l))
    /\ subs' = [subs EXCEPT ![l].active = FALSE, ![l].closed = TRUE]
    /\ resp' = NoResp
    /\ procs' = IF runningProcesses[subs[l].sid] # NoHandle
                THEN abort(procs, runningProcesses[subs[l].sid])
                ELSE procs
    /\ UNCHANGED <<nCalls, runningCount, runningProcesses, nRuns, nSteps,
                   workspaces, storeVars>>
    /\ UNCHANGED <<adapterVars, diskVars>>

\* stream.onAbort: the client disconnected; the wait resolves and the
\* callback is unsubscribed
ClientAbort(l) ==
    /\ subs[l] # NoSub
    /\ subs[l].active
    /\ SetBusState(unsubscribe(BusState, subs[l].sid, subs[l].gen, l))
    /\ subs' = [subs EXCEPT ![l].active = FALSE, ![l].closed = TRUE]
    /\ resp' = NoResp
    /\ UNCHANGED <<nCalls, runningCount, runningProcesses, procs, nRuns, nSteps,
                   workspaces, storeVars>>
    /\ UNCHANGED <<adapterVars, diskVars>>

\* a writeSSE of an event handed to the callback rejects: streamClosed is
\* set, the callback stays subscribed until the next poll
WriteFail(l) ==
    /\ subs[l] # NoSub
    /\ subs[l].active
    /\ ~subs[l].closed
    /\ received[l] # <<>>
    /\ subs' = [subs EXCEPT ![l].closed = TRUE]
    /\ resp' = NoResp
    /\ UNCHANGED <<buses, cleanupTimers, timers, busGen, received, nCalls, runningCount,
                   runningProcesses, procs, nRuns, nSteps, workspaces, storeVars>>
    /\ UNCHANGED <<adapterVars, diskVars>>

\* an interval that ends the stream whatever it finds
Poll_eager(l) ==
    /\ subs[l] # NoSub
    /\ subs[l].active
    /\ SetBusState(unsubscribe(BusState, subs[l].sid, subs[l].gen, l))
    /\ subs' = [subs EXCEPT ![l].active = FALSE]
    /\ resp' = NoResp
    /\ UNCHANGED <<nCalls, runningCount, runningProcesses, procs, nRuns, nSteps,
                   workspaces, storeVars>>
    /\ UNCHANGED <<adapterVars, diskVars>>

\* the 100 ms interval finds `bus.done || streamClosed`: the wait resolves
\* and the callback is unsubscribed
Poll(l) ==
    /\ subs[l] # NoSub
    /\ subs[l].active
    /\ CapturedDone(l) \/ subs[l].closed
    /\ SetBusState(unsubscribe(BusState, subs[l].sid, subs[l].gen, l))
    /\ subs' = [subs EXCEPT ![l].active = FALSE]
    /\ resp' = NoResp
    /\ UNCHANGED <<nCalls, runningCount, runningProcesses, procs, nRuns, nSteps,
                   workspaces, storeVars>>
    /\ UNCHANGED <<adapterVars, diskVars>>

\* the event streams are followed on two sessions, whose runs yield text
\* and the two terminal events
StreamSessions == {"s1", "s2"}
StreamEvents == {TextDelta(<<"t">>), ResultEvent, ErrorEvent}
StreamOutcomes ==
    {[kind |-> "done"]} \cup
    {[kind |-> "event", event |-> SessionCreated(s)] : s \in StreamSessions}

StreamNext ==
    \/ CreateSession(TRUE)
    \/ \E p \in ProcIds, o \in StreamOutcomes : CreateSessionFirst(p, o)
    \/ \E s \in StreamSessions : FollowUp(s)
    \/ \E s \in StreamSessions : Cancel(s)
    \/ \E p \in ProcIds, e \in StreamEvents : ConsumerEvent(p, e)
    \/ \E p \in ProcIds, how \in {"return", "throw"} : ConsumerEnd(p, how)
    \/ \E t \in timers : TimerFire(t)
    \/ Tick
    \/ \E s \in StreamSessions, l \in Listeners : GetEvents(s, l)
    \/ \E l \in Listeners : ClientAbort(l)
    \/ \E l \in Listeners : WriteFail(l)
    \/ \E l \in Listeners : Poll(l)

StreamSpec == Init /\ [][StreamNext]_vars

\* setInterval keeps calling the poll of every open stream
StreamLiveSpec == StreamSpec /\ \A l \in Listeners : WF_vars(Poll(l))

\* --------------------------------------------------------------- adapter

\* The repository holds two adapters behind the same executePrompt: one
\* spawns the claude CLI and parses its stdout (parseStream), one iterates
\* the messages of the agent SDK's query (adaptSDKMessages).
Adapters == {"spawn", "sdk"}

\* A record of the process's output, by the branch of parseStream that
\* takes it; the SDK hands over the same records as parsed messages.
InitEventLine(sid) == [kind |-> "init", session_id |-> sid]
TextDeltaLine(text) == [kind |-> "text_delta", text |-> text]
ContentBlockStartLine(id, name) ==
    [kind |-> "content_block_start", id |-> id, name |-> name]
InputJsonDeltaLine(partial_json) ==
    [kind |-> "input_json_delta", partial_json |-> partial_json]
ContentBlockStopLine == [kind |-> "content_block_stop"]
\* a stream_event no branch yields for (message_start, message_delta, ...)
StreamEventLine == [kind |-> "stream_event"]
\* a user message whose content is the tool_result blocks of these tool uses
UserMessageLine(ids) == [kind |-> "user", content |-> ids]
ResultMessageLine == [kind |-> "result"]
\* a system record whose subtype is not init (compact_boundary, status, ...)
SystemLine == [kind |-> "system"]
\* any other JSON object (assistant, ...)
OtherLine == [kind |-> "other"]
\* a blank line, a line that is not JSON, or JSON that is not an object
SkippedLine == [kind |-> "skipped"]

\* JSON text is a string of tokens; the input of a tool arrives in pieces.
JsonFragments == {<<"{">>, <<"a:1", "}">>, <<"}">>}

\* JSON values: an object is the set of its members, an array the
\* sequence of its items; member values and items are kept as their text
JsonObject(members) == [json |-> "object", members |-> members]
JsonArray(items) == [json |-> "array", items |-> items]

EmptyMap == JsonObject({})

\* JSON.parse: the value of a complete text; it throws (ok is FALSE) on
\* anything else, the empty text and every text cut short included
JSONparse(text) ==
    CASE text = <<"{", "}">> -> [ok |-> TRUE, value |-> EmptyMap]
      [] text = <<"{", "a:1", "}">> ->
            [ok |-> TRUE, value |-> JsonObject({<<"a", "1">>})]
      [] text = <<"{", "s1:idle", "}">> ->
            [ok |-> TRUE, value |-> JsonObject({<<"s1", "idle">>})]
      [] text = <<"{", "s1:5", "}">> ->
            [ok |-> TRUE, value |-> JsonObject({<<"s1", "5">>})]
      [] text = <<"[", "]">> -> [ok |-> TRUE, value |-> JsonArray(<<>>)]
      [] text = <<"[", "user:p", "]">> ->
            [ok |-> TRUE, value |-> JsonArray(<<"user:p">>)]
      [] OTHER -> [ok |-> FALSE, value |-> EmptyMap]

\* `try { JSON.parse(pendingToolInput) } catch { {} }`
parseToolInput(text) ==
    IF JSONparse(text).ok THEN JSONparse(text).value ELSE EmptyMap

\* the tool_use event of the adapter, with the fields the adapter fills
ToolUseEvent(id, tool, input) ==
    [type |-> "tool_use", id |-> id, tool |-> tool, input |-> input]

\* the records of a run apart from those of a tool invocation
StdoutLines ==
    {InitEventLine("s1"), TextDeltaLine(<<"t">>), StreamEventLine,
     UserMessageLine(<<"A">>), UserMessageLine(<<"A", "A">>), ResultMessageLine,
     SystemLine, OtherLine, SkippedLine}

\* the records of tool invocations, among text
ToolLines ==
    {ContentBlockStartLine("A", "Bash"), ContentBlockStartLine("B", "Read"),
     ContentBlockStopLine, TextDeltaLine(<<"t">>)}
        \cup {InputJsonDeltaLine(f) : f \in JsonFragments}

\* pendingToolId, pendingToolName and pendingToolInput as one value
PendingTool ==
    [id |-> pendingToolId, name |-> pendingToolName, input |-> pendingToolInput]

NoPendingTool == [id |-> "", name |-> "", input |-> <<>>]

SetPendingTool(pending) ==
    /\ pendingToolId' = pending.id
    /\ pendingToolName' = pending.name
    /\ pendingToolInput' = pending.input

\* the SDK parses the output itself: its messages are objects
SDKMessages == StdoutLines \ {SkippedLine}

\* the code of the exit event: a number, or null after a signal
ExitCodes == {0, 1, NullCode}

\* One iteration of the for-await loop of parseStream: the events the line
\* yields and the pending tool_use after it, with the input fragments
\* replacing each other instead of being concatenated.
parseLine_lastFragment(line, pending) ==
    CASE line.kind = "content_block_start" ->
            [events |-> <<>>,
             pending |-> [id |-> line.id, name |-> line.name, input |-> <<>>]]
      [] line.kind = "input_json_delta" ->
            [events |-> <<>>, pending |-> [pending EXCEPT !.input = line.partial_json]]
      [] line.kind = "content_block_stop" ->
            IF pending.name # ""
            THEN [events |-> <<ToolUseEvent(pending.id, pending.name,
                                            parseToolInput(pending.input))>>,
                  pending |-> NoPendingTool]
            ELSE [events |-> <<>>, pending |-> pending]
      [] OTHER -> [events |-> <<>>, pending |-> pending]

\* One iteration of the for-await loop of parseStream: the events the line
\* yields and the pending tool_use after it.
parseLine(line, pending) ==
    CASE line.kind = "skipped" -> [events |-> <<>>, pending |-> pending]
      [] line.kind = "init" ->
            [events |-> <<SessionCreated(line.session_id)>>, pending |-> pending]
      [] line.kind = "text_delta" ->
            [events |-> <<TextDelta(line.text)>>, pending |-> pending]
      [] line.kind = "content_block_start" ->
            [events |-> <<>>,
             pending |-> [id |-> line.id, name |-> line.name, input |-> <<>>]]
      [] line.kind = "input_json_delta" ->
            [events |-> <<>>,
             pending |-> [pending EXCEPT !.input = @ \o line.partial_json]]
      [] line.kind = "content_block_stop" ->
            IF pending.name # ""
            THEN [events |-> <<ToolUseEvent(pending.id, pending.name,
                                            parseToolInput(pending.input))>>,
                  pending |-> NoPendingTool]
            ELSE [events |-> <<>>, pending |-> pending]
      [] line.kind = "stream_event" -> [events |-> <<>>, pending |-> pending]
      [] line.kind = "user" ->
            [events |-> [i \in 1..Len(line.content) |-> ToolResult(line.content[i])],
             pending |-> pending]
      [] line.kind = "result" -> [events |-> <<ResultEvent>>, pending |-> pending]
      [] line.kind \in {"system", "other"} ->
            [events |-> <<RawMessage>>, pending |-> pending]

\* One iteration of the for-await loop of adaptSDKMessages: the switch on
\* msg.type.  It differs from parseLine in `case 'system'`, which yields
\* for subtype init only and leaves the switch otherwise.
adaptSDKMessage(msg, pending) ==
    IF msg.kind = "system"
    THEN [events |-> <<>>, pending |-> pending]
    ELSE parseLine(msg, pending)

\* What parseStream yields once the loop is over and the exit code is known.
exitEvents(exitCode) ==
    IF exitCode # 0 /\ exitCode # NullCode THEN <<ErrorEvent>> ELSE <<>>

\* executePrompt: spawn the process; streamEvents starts parseStream on it.
executePrompt(adapter) ==
    /\ child.state \in {"none", "exited"}
    /\ child' = [state |-> "running", adapter |-> adapter, stdout |-> <<>>,
                 killed |-> FALSE, exitCode |-> NullCode]
    /\ SetPendingTool(NoPendingTool)
    /\ emitted' = <<>>
    /\ UNCHANGED <<busVars, routeVars, storeVars, diskVars>>

\* The process writes a line and the loop of parseStream handles it.
ReadLine(line) ==
    /\ child.state = "running"
    /\ child.adapter = "spawn"
    /\ Len(child.stdout) < MaxLines
    /\ LET r == parseLine(line, PendingTool)
       IN  /\ emitted' = emitted \o r.events
           /\ SetPendingTool(r.pending)
    /\ child' = [child EXCEPT !.stdout = Append(@, line)]
    /\ UNCHANGED <<busVars, routeVars, storeVars, diskVars>>

\* The query of the SDK yields a message and the loop of adaptSDKMessages
\* handles it.
ReadMessage(msg) ==
    /\ child.state = "running"
    /\ child.adapter = "sdk"
    /\ Len(child.stdout) < MaxLines
    /\ LET r == adaptSDKMessage(msg, PendingTool)
       IN  /\ emitted' = emitted \o r.events
           /\ SetPendingTool(r.pending)
    /\ child' = [child EXCEPT !.stdout = Append(@, msg)]
    /\ UNCHANGED <<busVars, routeVars, storeVars, diskVars>>

\* handle.abort(): SIGTERM to a process that has not exited; the SDK
\* adapter aborts the controller it gave to query.
AdapterAbort ==
    /\ child.state = "running"
    /\ ~child.killed
    /\ child' = [child EXCEPT !.killed = TRUE]
    /\ UNCHANGED <<pendingToolId, pendingToolName, pendingToolInput, emitted,
                   busVars, routeVars, storeVars, diskVars>>

\* The process ends: stdout closes, the loop is left, the exit event brings
\* the code and the generator finishes.  A process may handle SIGTERM and
\* end with a code of its own; a signal from elsewhere gives null as well.
Exit(exitCode) ==
    /\ child.state = "running"
    /\ child.adapter = "spawn"
    /\ child' = [child EXCEPT !.state = "exited", !.exitCode = exitCode]
    /\ emitted' = emitted \o exitEvents(exitCode)
    /\ UNCHANGED <<pendingToolId, pendingToolName, pendingToolInput,
                   busVars, routeVars, storeVars, diskVars>>

\* The query of the SDK is exhausted, or it throws the AbortError of an
\* aborted controller, which streamEvents catches: the generator returns.
QueryEnd ==
    /\ child.state = "running"
    /\ child.adapter = "sdk"
    /\ child' = [child EXCEPT !.state = "exited"]
    /\ UNCHANGED <<pendingToolId, pendingToolName, pendingToolInput, emitted,
                   busVars, routeVars, storeVars, diskVars>>

AdapterNext ==
    \/ \E a \in Adapters : executePrompt(a)
    \/ \E line \in StdoutLines : ReadLine(line)
    \/ \E msg \in SDKMessages : ReadMessage(msg)
    \/ AdapterAbort
    \/ \E c \in ExitCodes : Exit(c)
    \/ QueryEnd

AdapterSpec == Init /\ [][AdapterNext]_vars

\* the adapters fed with the records of tool invocations
ToolNext ==
    \/ \E a \in Adapters : executePrompt(a)
    \/ \E line \in ToolLines : ReadLine(line)
    \/ \E msg \in ToolLines : ReadMessage(msg)
    \/ AdapterAbort
    \/ \E c \in ExitCodes : Exit(c)
    \/ QueryEnd

ToolSpec == Init /\ [][ToolNext]_vars

\* -------------------------------------------- the files, read as text

\* what JSON.stringify can have written to sessions.json (a store with no
\* session, with one idle session) and a text that is JSON but no store
StoreTexts == {<<"{", "}">>, <<"{", "s1:idle", "}">>, <<"{", "s1:5", "}">>}

\* the same for messages-<id>.json: no message, one message, no array
MessageTexts == {<<"[", "]">>, <<"[", "user:p", "]">>, <<"{", "}">>}

FileTexts(f) == IF f = "sessions.json" THEN StoreTexts ELSE MessageTexts

\* SessionStoreSchema: a record of session metadata (here: of statuses)
SessionStoreSchema(value) ==
    /\ value.json = "object"
    /\ \A m \in value.members : m[2] \in {"idle", "running", "cancelled"}

\* MessagesSchema: an array of messages
MessagesSchema(value) ==
    /\ value.json = "array"
    /\ \A i \in 1..Len(value.items) : value.items[i] \in {"user:p"}

Returned(op, file, value) ==
    [op |-> op, of |-> file, outcome |-> "returned", value |-> value]

\* the call ends with the SyntaxError of JSON.parse
Thrown(op, file) ==
    [op |-> op, of |-> file, outcome |-> "thrown", value |-> EmptyMap]

\* loadStore: existsSync, readFileSync, JSON.parse, safeParse
loadStore(file) ==
    IF ~file.exists
    THEN Returned("loadStore", file, JsonObject({}))
    ELSE IF ~JSONparse(file.content).ok
    THEN Thrown("loadStore", file)
    ELSE IF SessionStoreSchema(JSONparse(file.content).value)
    THEN Returned("loadStore", file, JSONparse(file.content).value)
    ELSE Returned("loadStore", file, JsonObject({}))

\* getMessages on the text of the file
getMessagesOfFile(file) ==
    IF ~file.exists
    THEN Returned("getMessages", file, JsonArray(<<>>))
    ELSE IF ~JSONparse(file.content).ok
    THEN Thrown("getMessages", file)
    ELSE IF MessagesSchema(JSONparse(file.content).value)
    THEN Returned("getMessages", file, JSONparse(file.content).value)
    ELSE Returned("getMessages", file, JsonArray(<<>>))

\* writeFileSync runs to its end
WriteFile(f, text) ==
    /\ disk' = [disk EXCEPT ![f] = [exists |-> TRUE, content |-> text]]
    /\ UNCHANGED <<readResult, busVars, routeVars, storeVars, adapterVars>>

\* the server dies inside writeFileSync: the file holds the first n tokens
PartialWrite(f, text, n) ==
    /\ n < Len(text)
    /\ disk' = [disk EXCEPT ![f] = [exists |-> TRUE, content |-> SubSeq(text, 1, n)]]
    /\ UNCHANGED <<readResult, busVars, routeVars, storeVars, adapterVars>>

\* a call that starts with loadStore (getSession, listSessions, ...)
LoadStore ==
    /\ readResult' = loadStore(disk["sessions.json"])
    /\ UNCHANGED <<disk, busVars, routeVars, storeVars, adapterVars>>

GetMessages ==
    /\ readResult' = getMessagesOfFile(disk["messages-s1.json"])
    /\ UNCHANGED <<disk, busVars, routeVars, storeVars, adapterVars>>

DiskNext ==
    \/ \E f \in Files : \E text \in FileTexts(f) : WriteFile(f, text)
    \/ \E f \in Files : \E text \in FileTexts(f), n \in 0..2 : PartialWrite(f, text, n)
    \/ LoadStore
    \/ GetMessages

DiskSpec == Init /\ [][DiskNext]_vars

\* ------------------------------------------------------------ properties

\* The listener l is registered on the bus entry that is now in the map.
Attached(l) ==
    /\ subs[l] # NoSub
    /\ subs[l].active
    /\ buses[subs[l].sid] # NoBus
    /\ buses[subs[l].sid].gen = subs[l].gen

\* C1: whenever a listener subscribed to a bus entry, at whatever point of the
\* publish sequence, what it has received (the replay at subscribe time, then the
\* live deliveries) is exactly the entry's published sequence, in publish order.
C1_ReplayPlusLiveIsBuffer ==
    \A l \in Listeners :
        Attached(l) => received[l] = buses[subs[l].sid].buffer

\* a listener that joined after one event and then received another one live
C1_Witness ==
    \E l \in Listeners :
        /\ Attached(l)
        /\ subs[l].replayed = 1
        /\ Len(received[l]) = 2
        /\ received[l][1] # received[l][2]

\* C4: a bus entry leaves the map only when a timer that markDone armed for
\* this very entry fires after the grace window; a timer armed by a markDone
\* that preceded the entry's createBus never removes it.
C4_OnlyOwnTimerRemovesBus ==
    [][\A s \in Sessions :
          (buses[s] # NoBus /\ buses'[s] = NoBus) =>
              \E t \in timers :
                  /\ t \notin timers'
                  /\ t.sid = s
                  /\ t.left = 0
                  /\ t.gen = buses[s].gen]_vars

\* the sessions with an entry in the run registry
Registered == {s \in Sessions : runningProcesses[s] # NoHandle}

\* the consumers iterating a run of session s
ConsumersOf(s) ==
    {p \in ProcIds : procs[p] # NoProc /\ procs[p].phase = "consuming" /\ procs[p].sid = s}

\* the requests that hold a concurrency slot: a create awaiting its first
\* event, or a run handed to a background consumer
SlotHolders ==
    {p \in ProcIds : procs[p] # NoProc /\ procs[p].phase \in {"first", "consuming"}}

Status(st, s) == IF st[s] = NoSession THEN "none" ELSE st[s].status

OneRunPerSession ==
    \A s \in Sessions :
        /\ Cardinality(ConsumersOf(s)) <= 1
        /\ ConsumersOf(s) = IF runningProcesses[s] = NoHandle
                            THEN {}
                            ELSE {runningProcesses[s]}

\* C3: a session never has two runs in flight; a follow-up for a session
\* with a registry entry answers SESSION_BUSY, starts no process and leaves
\* registry, runningCount, message log, store and bus as they were.
C3_FollowUpOnBusySession ==
    /\ []OneRunPerSession
    /\ [][\A s \in Sessions :
            (runningProcesses[s] # NoHandle /\ FollowUp(s)) =>
                /\ resp' = Response("message", "SESSION_BUSY")
                /\ UNCHANGED <<runningProcesses, runningCount, procs, nRuns, messages,
                               store, buses, cleanupTimers, timers, workspaces>>]_vars

\* a follow-up was refused as busy while the run it collided with goes on,
\* here on a session that had been cancelled
C3_Witness ==
    \E s \in Sessions :
        /\ resp = Response("message", "SESSION_BUSY")
        /\ runningProcesses[s] # NoHandle
        /\ store[s].status = "cancelled"

KilledIsCancelled ==
    \A p \in ProcIds :
        (procs[p] # NoProc /\ procs[p].phase = "consuming" /\ procs[p].killed)
            => Status(store, procs[p].sid) = "cancelled"

\* C6: cancel on a session with a registry entry invokes the stored handle
\* and sets the status to cancelled in the same step, the consumer not having
\* finished (the entry stays); from then until the consumer finishes, and in
\* the step where it finishes, the status stays cancelled.
C6_CancelIsImmediateAndSticks ==
    /\ [][\A s \in Sessions :
            (runningProcesses[s] # NoHandle /\ Cancel(s)) =>
                /\ resp' = Response("cancel", "OK")
                /\ Status(store', s) = "cancelled"
                /\ procs'[runningProcesses[s]].killed
                /\ procs'[runningProcesses[s]].phase = "consuming"
                /\ UNCHANGED <<runningProcesses, runningCount, buses>>]_vars
    /\ []KilledIsCancelled
    /\ [][\A p \in ProcIds, how \in {"return", "throw"} :
            (ConsumerEnd(p, how) /\ procs[p].killed) =>
                Status(store', procs[p].sid) = "cancelled"]_vars

\* a cancelled run whose consumer has finished: still cancelled
C6_Witness ==
    \E s \in Sessions :
        /\ Status(store, s) = "cancelled"
        /\ runningProcesses[s] = NoHandle
        /\ buses[s] # NoBus
        /\ buses[s].done

\* C7: cancel on an existing session without a registry entry answers
\* SESSION_IDLE, cancel on an unknown session answers SESSION_NOT_FOUND, and
\* in both cases status, runningCount, registry, message log and bus are
\* unchanged.
C7_CancelRejected ==
    [][\A s \in Sessions :
          (runningProcesses[s] = NoHandle /\ Cancel(s)) =>
              /\ resp' = IF store[s] = NoSession
                         THEN Response("cancel", "SESSION_NOT_FOUND")
                         ELSE Response("cancel", "SESSION_IDLE")
              /\ UNCHANGED <<store, runningCount, runningProcesses, messages, procs,
                             buses, cleanupTimers, timers>>]_vars

\* cancel was refused on a session that exists and is idle
C7_Witness ==
    \E s \in Sessions :
        /\ resp = Response("cancel", "SESSION_IDLE")
        /\ Status(store, s) = "idle"
        /\ runningProcesses[s] = NoHandle

\* runningCount counts exactly the requests that hold a slot
SlotAccounting == runningCount = Cardinality(SlotHolders)

\* C8: when the first event of a create is not session_created, or the
\* sequence ends before any event, or pulling it throws, the request answers
\* SESSION_CREATE_FAILED, gives back the slot it took (runningCount is one
\* less and again counts only the other requests), and no session metadata,
\* message log, registry entry or bus entry is created.
C8_CreateFailureRestores ==
    /\ []SlotAccounting
    /\ [][\A p \in ProcIds, o \in FirstOutcomes :
            (/\ CreateSessionFirst(p, o)
             /\ (o.kind = "event" => o.event.type # "session_created")) =>
                /\ resp' = Response("create", "SESSION_CREATE_FAILED")
                /\ runningCount' = runningCount - 1
                /\ p \notin SlotHolders'
                /\ UNCHANGED <<store, messages, runningProcesses, buses, cleanupTimers,
                               timers>>]_vars

\* the only create so far has failed: nothing exists and no slot is taken
C8_Witness ==
    /\ resp = Response("create", "SESSION_CREATE_FAILED")
    /\ runningCount = 0
    /\ nRuns = 1
    /\ workspaces = 1
    /\ \A s \in Sessions :
          /\ store[s] = NoSession
          /\ messages[s] = NoFile
          /\ buses[s] = NoBus
          /\ runningProcesses[s] = NoHandle

\* the state a rejected run-start request must leave alone
RunState ==
    <<runningCount, runningProcesses, procs, nRuns, workspaces, store, messages,
      buses, cleanupTimers, timers>>

\* C9: with runningCount at the ceiling, a create, and a follow-up that
\* passed the not-found and busy checks, answer CONCURRENCY_LIMIT in the
\* request's own step and change nothing: no workspace, no process, no
\* pending request, and runningCount, registry, store, message log and buses
\* as before.
C9_RejectedAtCeiling ==
    /\ [][\A clone \in BOOLEAN :
            (runningCount = Concurrency /\ CreateSession(clone)) =>
                /\ resp' = Response("create", "CONCURRENCY_LIMIT")
                /\ UNCHANGED RunState]_vars
    /\ [][\A s \in Sessions :
            (/\ runningCount = Concurrency
             /\ store[s] # NoSession
             /\ runningProcesses[s] = NoHandle
             /\ FollowUp(s)) =>
                /\ resp' = Response("message", "CONCURRENCY_LIMIT")
                /\ UNCHANGED RunState]_vars

\* a follow-up on an idle session was refused with every slot taken
C9_Witness ==
    \E s \in Sessions :
        /\ resp = Response("message", "CONCURRENCY_LIMIT")
        /\ runningCount = Concurrency
        /\ Status(store, s) = "idle"
        /\ runningProcesses[s] = NoHandle

\* the status changes the session state machine has
StatusTransitions ==
    {<<"none", "running">>, <<"running", "idle">>, <<"running", "cancelled">>,
     <<"idle", "running">>, <<"cancelled", "running">>}

\* C10: whatever step is taken, a session's persisted status either stays
\* or moves along one of: created as running, running to idle, running to
\* cancelled, idle to running, cancelled to running.
C10_StatusTransitions ==
    [][\A s \in Sessions :
          Status(store', s) # Status(store, s) =>
              <<Status(store, s), Status(store', s)>> \in StatusTransitions]_vars

\* a session whose run had finished, idle or cancelled, is running again on
\* a follow-up, with a new and still empty bus
C10_Witness ==
    \E s \in Sessions :
        /\ resp = Response("message", "OK")
        /\ Status(store, s) = "running"
        /\ runningProcesses[s] # NoHandle
        /\ procs[runningProcesses[s]].skip
        /\ buses[s].buffer = <<>>

\* ------------------------------------------------ claims C11 to C20

\* the sessions of a store with the given status
WithStatus(st, status) == {s \in Sessions : Status(st, s) = status}

RECURSIVE RoleBlocks(_)
RoleBlocks(log) ==
    IF log = <<>>
    THEN <<>>
    ELSE RoleBlocks(SubSeq(log, 1, Len(log) - 1)) \o
         [j \in 1..Len(log[Len(log)].content) |->
             <<log[Len(log)].role, log[Len(log)].content[j]>>]

\* message boundaries are exactly the role changes: no message is empty and
\* neighbours differ in role
RoleRuns(log) ==
    /\ \A i \in 1..Len(log) : log[i].content # <<>>
    /\ \A i \in 1..(Len(log) - 1) : log[i].role # log[i + 1].role

\* C12: an append goes into the last message when that has the same role and
\* otherwise into a new message holding only the block.  So after any
\* sequence of appends getMessages returns the blocks in append order, one
\* message per run of equal roles, and an append leaves every message but
\* the last, and every other session's log, as it was.
C12_AppendContentBlock ==
    [][\A sid \in StoreSessions, role \in StoreRoles, block \in StoreBlocks :
          StoreAppend(sid, role, block) =>
              LET old == getMessages(messages, sid)
                  new == getMessages(messages', sid)
                  n == Len(old)
                  merge == n > 0 /\ old[n].role = role
              IN  /\ RoleBlocks(new) = Append(RoleBlocks(old), <<role, block>>)
                  /\ RoleRuns(new)
                  /\ Len(new) = IF merge THEN n ELSE n + 1
                  /\ new[Len(new)] =
                        [role |-> role,
                         content |-> IF merge THEN Append(old[n].content, block)
                                     ELSE <<block>>]
                  /\ \A i \in 1..(Len(new) - 1) : new[i] = old[i]
                  /\ \A s \in Sessions \ {sid} : messages'[s] = messages[s]]_vars

\* two blocks merged into one user message, followed by an assistant message
C12_Witness ==
    LET log == getMessages(messages, "s1")
    IN  /\ Len(log) = 2
        /\ log[1].role = "user"
        /\ Len(log[1].content) = 2
        /\ log[1].content[1] # log[1].content[2]
        /\ log[2].role = "assistant"
        /\ getMessages(messages, "s2") # <<>>

\* the text accumulated and not yet persisted, as the block it will become
PendingText(acc) ==
    IF acc = <<>> THEN <<>> ELSE << <<"assistant", TextBlock(acc)>> >>

\* the content block an event produces in the log, if any
EventBlock(event) ==
    CASE event.type = "tool_use" -> << <<"assistant", ToolUseBlock(event.id)>> >>
      [] event.type = "tool_result" ->
            << <<"user", ToolResultBlock(event.tool_use_id)>> >>
      [] OTHER -> <<>>

\* C13: the order in which the adapter produced the events of a run is kept
\* by the bus and by the log.  Every event the consumer handles goes to the
\* end of the session's bus buffer; the log only grows at its end, and when
\* an event adds its block, the text of the text_delta events that came before
\* it is already in the log or is put there in front of the block.
C13_OrderPreserved ==
    [][\A p \in ProcIds, event \in ConductorEvent :
          (ConsumerEvent(p, event)
              /\ ~(procs[p].skip /\ event.type = "session_created")) =>
              LET sid == procs[p].sid
                  old == RoleBlocks(getMessages(messages, sid))
                  new == RoleBlocks(getMessages(messages', sid))
                  ext == SubSeq(new, Len(old) + 1, Len(new))
              IN  /\ buses'[sid].buffer = Append(buses[sid].buffer, event)
                  /\ Len(new) >= Len(old)
                  /\ SubSeq(new, 1, Len(old)) = old
                  /\ IF EventBlock(event) # <<>>
                     THEN ext = PendingText(procs[p].acc) \o EventBlock(event)
                     ELSE ext \in {<<>>, PendingText(procs[p].acc)}]_vars

\* C14: whenever the consumer publishes an event, what the event contributes
\* to the log is already persisted: the block of a tool_use or tool_result
\* is the last block of the log, the text of a text_delta is in the log and
\* not held back in memory, and session_created is published with the
\* session's metadata and prompt stored.
C14_PersistedBeforePublished ==
    /\ [][\A p \in ProcIds, event \in ConductorEvent :
            (ConsumerEvent(p, event)
                /\ buses'[procs[p].sid].buffer # buses[procs[p].sid].buffer) =>
                LET new == RoleBlocks(getMessages(messages', procs[p].sid))
                IN  /\ EventBlock(event) # <<>> =>
                          (new # <<>> /\ new[Len(new)] = EventBlock(event)[1])
                    /\ event.type = "text_delta" => procs'[p].acc = <<>>]_vars
    /\ [][\A p \in ProcIds, first \in FirstOutcomes :
            (CreateSessionFirst(p, first) /\ resp' = Response("create", "OK")) =>
                LET sid == first.event.session_id
                IN  /\ buses'[sid].buffer = <<first.event>>
                    /\ store'[sid] # NoSession
                    /\ getMessages(messages', sid) # <<>>]_vars

\* a step of the event-stream handler for connection l
StreamStep(l) ==
    \/ \E s \in StreamSessions : GetEvents(s, l)
    \/ ClientAbort(l)
    \/ WriteFail(l)
    \/ Poll(l)

\* what a bus entry holds apart from its subscribers
BusContent(bus) ==
    IF bus = NoBus THEN NoBus ELSE [bus EXCEPT !.subscribers = {}]

\* C15: subscribing, unsubscribing and abandoning an event stream change
\* neither runningCount, the registry, the processes, the store, the message
\* logs nor any bus buffer or done flag; a consumer iteration with no
\* subscriber persists and publishes like any other; and whoever subscribes
\* is handed the whole buffer and from then on holds the bus's full sequence.
C15_SubscriptionsDoNotTouchRuns ==
    /\ [][\A l \in Listeners :
            StreamStep(l) =>
                /\ UNCHANGED <<runningCount, runningProcesses, procs, nRuns, store,
                               messages, cleanupTimers, timers>>
                /\ \A s \in Sessions : BusContent(buses'[s]) = BusContent(buses[s])]_vars
    /\ [][\A p \in ProcIds, event \in StreamEvents :
            (ConsumerEvent(p, event) /\ buses[procs[p].sid].subscribers = {}) =>
                /\ buses'[procs[p].sid].buffer =
                      Append(buses[procs[p].sid].buffer, event)
                /\ messages' = Persist(messages, procs[p].sid, procs[p].acc, event)]_vars
    /\ [][\A l \in Listeners :
            /\ \A s \in StreamSessions :
                  (GetEvents(s, l) /\ buses[s] # NoBus) =>
                      received'[l] = buses[s].buffer
            /\ Attached(l)' => received'[l] = buses'[subs'[l].sid].buffer]_vars

\* a client left after the first event; the run went on publishing with no
\* subscriber and is still going; a later client was handed both events
C15_Witness ==
    \E k, l \in Listeners :
        /\ subs[k] # NoSub /\ subs[l] # NoSub
        /\ subs[k].closed
        /\ ~subs[k].active
        /\ Len(received[k]) = 1
        /\ Attached(l)
        /\ subs[l].replayed = 2
        /\ received[l] = buses[subs[l].sid].buffer
        /\ runningProcesses[subs[l].sid] # NoHandle
        /\ ~buses[subs[l].sid].done

\* the cleanup timer that the markDone of the bus entry of s armed
GraceTimers(s) ==
    {t \in timers : t.sid = s /\ t.gen = buses[s].gen /\ t.id = cleanupTimers[s]}

\* C16: a bus entry marked done stays in the map, with its grace timer
\* pending, and an event stream opened on it is handed the complete buffer;
\* the entry leaves the map only in the step in which that timer fires,
\* CLEANUP_DELAY_MS after it was armed; without an entry, an event stream
\* request is answered NO_ACTIVE_STREAM and subscribes nothing.
C16_DoneBusLivesForGraceWindow ==
    [][/\ \A s \in Sessions :
            /\ (buses'[s] # NoBus /\ buses'[s].done) => GraceTimers(s)' # {}
            /\ (buses[s] # NoBus /\ buses'[s] = NoBus) =>
                  /\ buses[s].done
                  /\ \E t \in GraceTimers(s) : t.left = 0 /\ TimerFire(t)
       /\ \A s \in StreamSessions, l \in Listeners :
            GetEvents(s, l) =>
                IF buses[s] = NoBus
                THEN /\ resp' = Response("events", "NO_ACTIVE_STREAM")
                     /\ UNCHANGED <<buses, subs, received>>
                ELSE /\ resp' = Response("events", "OK")
                     /\ received'[l] = buses[s].buffer
       /\ \A t \in timers :
            (t.left = CLEANUP_DELAY_MS /\ t \notin timers') => buses'[t.sid] # NoBus]_vars

\* a client that connected after the run had ended replayed its events; the
\* timer has fired since, and the next request for the stream got the 404
C16_Witness ==
    \E s \in StreamSessions, l \in Listeners :
        /\ resp = Response("events", "NO_ACTIVE_STREAM")
        /\ buses[s] = NoBus
        /\ cleanupTimers[s] = NoTimer
        /\ Status(store, s) = "idle"
        /\ subs[l] # NoSub
        /\ subs[l].sid = s
        /\ ~subs[l].active /\ ~subs[l].closed
        /\ Len(received[l]) >= 2

HasSessionCreated(buffer) ==
    \E i \in 1..Len(buffer) : buffer[i].type = "session_created"

\* C17: while a run is registered, the bus buffer of the session starts with
\* the session's session_created if the run is the one that created the
\* session, and holds no session_created at all if it is a follow-up run,
\* even when the adapter emits one; a follow-up starts on an empty buffer,
\* and once the run is over the buffer of its bus no longer changes.
C17_SessionCreatedOnlyOnFirstRun ==
    [][\A s \in Sessions :
          /\ runningProcesses'[s] # NoHandle =>
                /\ buses'[s] # NoBus
                /\ IF procs'[runningProcesses'[s]].skip
                   THEN ~HasSessionCreated(buses'[s].buffer)
                   ELSE /\ buses'[s].buffer # <<>>
                        /\ buses'[s].buffer[1] = SessionCreated(s)
          /\ FollowUp(s) /\ resp' = Response("message", "OK") =>
                buses'[s].buffer = <<>>
          /\ (/\ runningProcesses[s] = NoHandle
              /\ runningProcesses'[s] = NoHandle
              /\ buses[s] # NoBus
              /\ buses'[s] # NoBus) =>
                buses'[s].buffer = buses[s].buffer]_vars

\* the adapter of a follow-up run emitted session_created as its only event
\* so far and the session's new bus is still empty
C17_Witness ==
    \E s \in Sessions :
        /\ runningProcesses[s] # NoHandle
        /\ procs[runningProcesses[s]].skip
        /\ buses[s].buffer = <<>>
        /\ nRuns = 2
        /\ nSteps = 5
        /\ timers = {}
        /\ Status(store, s) = "running"
        /\ resp = NoResp

\* the event stream of connection l is open
Open(l) == subs[l] # NoSub /\ subs[l].active

\* the event stream of connection l ended without the client having gone
EndedByServer(l) == subs[l] # NoSub /\ ~subs[l].active /\ ~subs[l].closed

EmittedAt(type) == {i \in 1..Len(emitted) : emitted[i].type = type}
ResultLinesRead == {i \in 1..Len(child.stdout) : child.stdout[i] = ResultMessageLine}

\* C19: in the event sequence of one adapter invocation every terminal
\* summary record read has produced exactly one result event, and a result
\* event is the last event of the sequence: no event of any type follows it.
C19_ResultEndsSequence ==
    /\ Cardinality(EmittedAt("result")) = Cardinality(ResultLinesRead)
    /\ \A i \in EmittedAt("result") : i = Len(emitted)

\* C20: the sequence of a finished invocation holds a synthetic error event
\* exactly when the process exited with a non-zero code and no result event
\* was emitted; it is then the only one and the last event.  While the
\* process runs there is none.
C20_SyntheticErrorOnlyWithoutResult ==
    IF /\ child.state = "exited"
       /\ child.exitCode # 0
       /\ child.exitCode # NullCode
       /\ EmittedAt("result") = {}
    THEN EmittedAt("error") = {Len(emitted)}
    ELSE EmittedAt("error") = {}

\* ==================================================== claims C21 to C30

\* C21: once the cancellation function of a run has been invoked on its
\* process, the event sequence of that invocation holds no error event,
\* whatever the process does afterwards and however it ends.
C21_CancelEndsWithoutError ==
    child.killed => EmittedAt("error") = {}

\* The records read so far that none of the adapter's shapes accepts: a
\* system record other than init, and any other object.
UnknownRead ==
    {i \in 1..Len(child.stdout) : child.stdout[i] \in {SystemLine, OtherLine}}

\* C22: every record read so far that matches no known shape has yielded a
\* raw_message event of its own; none was dropped.
C22_UnknownRecordsYieldRaw ==
    Cardinality(EmittedAt("raw_message")) = Cardinality(UnknownRead)

\* The position of the block start that is still open after the records
\* `lines`: the last start with no block stop after it (0 when none is).
OpenStart(lines) ==
    LET open == {i \in 1..Len(lines) :
                    /\ lines[i].kind = "content_block_start"
                    /\ \A j \in (i + 1)..Len(lines) :
                          lines[j].kind \notin {"content_block_start", "content_block_stop"}}
    IN  IF open = {} THEN 0 ELSE CHOOSE i \in open : TRUE

\* The input fragments among the records from position i on, concatenated.
RECURSIVE FragmentsFrom(_, _)
FragmentsFrom(lines, i) ==
    IF i > Len(lines)
    THEN <<>>
    ELSE (IF lines[i].kind = "input_json_delta" THEN lines[i].partial_json ELSE <<>>)
            \o FragmentsFrom(lines, i + 1)

\* the events the step has added to the sequence
NewlyEmitted == SubSeq(emitted', Len(emitted) + 1, Len(emitted'))

\* C23: when the adapter handles a record, it emits a tool_use event only
\* if the record is a block stop and a block start is open; it then emits
\* exactly one, carrying the id and the name of that block start and the
\* parse of all input fragments received since, concatenated (the empty map
\* when the parse fails).  Every other record, a block stop with no open
\* block start included, emits no tool_use.
C23_ToolUseAtBlockStop ==
    [][Len(child'.stdout) = Len(child.stdout) + 1 =>
          LET line == child'.stdout[Len(child'.stdout)]
              i == OpenStart(child.stdout)
          IN  IF line.kind = "content_block_stop" /\ i # 0
              THEN NewlyEmitted =
                      <<ToolUseEvent(child.stdout[i].id, child.stdout[i].name,
                                     parseToolInput(FragmentsFrom(child.stdout, i)))>>
              ELSE \A k \in 1..Len(NewlyEmitted) : NewlyEmitted[k].type # "tool_use"]_vars

\* a tool_use whose input came in two fragments has been emitted
C23_Witness ==
    /\ child.stdout = <<ContentBlockStartLine("A", "Bash"), InputJsonDeltaLine(<<"{">>),
                        InputJsonDeltaLine(<<"a:1", "}">>), ContentBlockStopLine>>
    /\ emitted = <<ToolUseEvent("A", "Bash", JsonObject({<<"a", "1">>}))>>

\* the events of the scenario, after session_created
TwoToolCalls ==
    <<TextDelta(<<"t">>), ToolUse("A"), ToolUse("B"), ToolResult("A"), ToolResult("B"),
      TextDelta(<<"t">>), ResultEvent>>

\* the run of session s1 has ended and its events were those of the scenario
TwoToolCallsRan ==
    /\ buses["s1"] # NoBus
    /\ buses["s1"].done
    /\ buses["s1"].buffer = <<SessionCreated("s1")>> \o TwoToolCalls

\* C24: after a first run whose events were text, tool_use A, tool_use B,
\* tool_result A, tool_result B, text, result, the message log holds exactly
\* four messages: user(prompt), assistant(text, tool_use A, tool_use B),
\* user(tool_result A, tool_result B), assistant(text).
C24_TwoToolCallsLog ==
    TwoToolCallsRan =>
        getMessages(messages, "s1") =
            <<[role |-> "user", content |-> <<TextBlock(Prompt)>>],
              [role |-> "assistant",
               content |-> <<TextBlock(<<"t">>), ToolUseBlock("A"), ToolUseBlock("B")>>],
              [role |-> "user",
               content |-> <<ToolResultBlock("A"), ToolResultBlock("B")>>],
              [role |-> "assistant", content |-> <<TextBlock(<<"t">>)>>]>>

C24_Witness == TwoToolCallsRan

\* C25: every persisted session whose status is idle has a null
\* run_message_offset, and a session with a non-null offset has a current
\* run (an entry in the run registry).
C25_IdleHasNoOffset ==
    \A s \in Sessions :
        store[s] # NoSession =>
            /\ store[s].status = "idle" => store[s].run_message_offset = NullOffset
            /\ store[s].run_message_offset # NullOffset => runningProcesses[s] # NoHandle

\* every tool_result block of the log has a tool_use block with its id
\* somewhere before it
ToolResultsReferBack(log) ==
    LET bl == RoleBlocks(log)
    IN  \A k \in 1..Len(bl) :
            bl[k][2].type = "tool_result" =>
                \E j \in 1..(k - 1) :
                    /\ bl[j][2].type = "tool_use"
                    /\ bl[j][2].id = bl[k][2].tool_use_id

\* C26: in every message log, each tool_result block refers to a tool_use
\* block located earlier in the same log.
C26_ToolResultRefersBack ==
    \A s \in Sessions : ToolResultsReferBack(getMessages(messages, s))

\* the texts that hold a session store, and those that hold a message log
WellFormed(op) ==
    IF op = "loadStore"
    THEN {<<"{", "}">>, <<"{", "s1:idle", "}">>}
    ELSE {<<"[", "]">>, <<"[", "user:p", "]">>}

\* C27: a read of session metadata or of a message log never ends with an
\* error, and when the file read was malformed (cut short by a partial
\* write, or not of the expected shape) the read returns what it returns
\* for an absent file: no sessions, an empty log.
C27_MalformedReadsAsAbsent ==
    readResult # NoRead =>
        /\ readResult.outcome = "returned"
        /\ (readResult.of.exists /\ readResult.of.content \notin WellFormed(readResult.op))
              => readResult.value =
                    (IF readResult.op = "loadStore" THEN JsonObject({}) ELSE JsonArray(<<>>))

\* C28: the step that answers CLONE_FAILED persists no session and no
\* message, spawns no process, creates no registry entry and no bus entry,
\* and leaves the running count at its value before the request.
C28_CloneFailedChangesNothing ==
    [][resp' = Response("create", "CLONE_FAILED") =>
          UNCHANGED <<store, messages, procs, nRuns, runningProcesses, buses,
                      cleanupTimers, runningCount>>]_vars

\* provisioning failed while another run held a slot
C28_Witness ==
    /\ resp = Response("create", "CLONE_FAILED")
    /\ runningCount = 1
    /\ \E s \in Sessions : runningProcesses[s] # NoHandle

\* C29: a publish on the bus of one session appends the event to that
\* session's buffer only and calls that session's listeners only: the bus
\* entries of all other sessions (buffer, listener set, done flag) and what
\* the listeners subscribed to other sessions have received are unchanged,
\* and the listener set and done flag of the session itself as well.
C29_PublishTouchesOneSession ==
    [][\A sid \in BusSessions, e \in BusEvents :
          BusPublish(sid, e) =>
              /\ \A s \in Sessions \ {sid} : buses'[s] = buses[s]
              /\ \A l \in Listeners :
                    (subs[l] # NoSub /\ subs[l].sid # sid) => received'[l] = received[l]
              /\ buses[sid] # NoBus =>
                    /\ buses'[sid] = [buses[sid] EXCEPT !.buffer = Append(@, e)]
                    /\ \A l \in buses[sid].subscribers :
                          received'[l] = Append(received[l], e)]_vars

\* both sessions have a bus with a listener; the event published on s1
\* reached the listener of s1 and not the listener of s2
C29_Witness ==
    \E l1, l2 \in Listeners :
        /\ Attached(l1) /\ subs[l1].sid = "s1"
        /\ Attached(l2) /\ subs[l2].sid = "s2"
        /\ Len(buses["s1"].buffer) = 1
        /\ received[l1] = buses["s1"].buffer
        /\ buses["s2"].buffer = <<>>
        /\ received[l2] = <<>>

\* the listener l has called the unsubscribe function it was given
Unsubscribed(l) == subs[l] # NoSub /\ ~subs[l].active

\* C30: a listener whose unsubscribe function has been called receives no
\* further event; the call itself removes that listener from its bus and
\* changes no buffer, no other listener set and nothing any listener has
\* received; and every listener still subscribed to a bus receives each
\* event published on it.
C30_UnsubscribeStopsDelivery ==
    [][/\ \A l \in Listeners :
             (Unsubscribed(l) /\ subs'[l] = subs[l]) => received'[l] = received[l]
       /\ \A l \in Listeners :
             BusUnsubscribe(l) =>
                 /\ received' = received
                 /\ \A s \in Sessions :
                       buses'[s] =
                           IF Attached(l) /\ s = subs[l].sid
                           THEN [buses[s] EXCEPT !.subscribers = @ \ {l}]
                           ELSE buses[s]
       /\ \A sid \in BusSessions, e \in BusEvents :
             BusPublish(sid, e) =>
                 \A k \in Listeners :
                     (Attached(k) /\ subs[k].sid = sid) =>
                         received'[k] = Append(received[k], e)]_vars

\* of two listeners of one bus, one unsubscribed before the event was
\* published: only the other one received it
C30_Witness ==
    \E l1, l2 \in Listeners :
        /\ Unsubscribed(l1)
        /\ Attached(l2)
        /\ subs[l1].sid = subs[l2].sid
        /\ subs[l1].gen = subs[l2].gen
        /\ received[l1] = <<>>
        /\ Len(received[l2]) = 1
        /\ received[l2] = buses[subs[l2].sid].buffer

\* ------------------------------------------------------ claims C31 to C40

\* ---- the life of a run, up to its end

\* The promise parseStream awaits once the loop over stdout is over:
\*   exitCode     child.exitCode at that moment: null while the process
\*                runs, and null for good after a death by signal
\*   exitEmitted  whether the 'exit' event was emitted before
\* It resolves at once with a code, at the next 'exit' event otherwise.
Resolved == "resolved"
Pending == "pending"
awaitExit(exitCode, exitEmitted) ==
    IF exitCode # NullCode THEN Resolved
    ELSE IF exitEmitted THEN Pending
    ELSE Resolved

\* stdout of process p is closed and parseStream leaves its loop.  With the
\* promise resolved the generator finishes (ConsumerFinally follows); with
\* the promise pending the generator waits for an event that was emitted
\* already, and the consumer stays inside its `for await`.
AwaitExit(p, exitCode, exitEmitted) ==
    /\ procs[p] # NoProc
    /\ procs[p].phase = "consuming"
    /\ awaitExit(exitCode, exitEmitted) = Pending
    /\ procs' = [procs EXCEPT ![p].phase = "awaitingExit"]
    /\ resp' = NoResp
    /\ UNCHANGED <<busVars, storeVars, runningCount, runningProcesses, nRuns,
                   nSteps, workspaces>>
    /\ UNCHANGED <<adapterVars, diskVars>>

\* the generator of process p finishes and the finally block runs
RunEnds(p, how) ==
    /\ ConsumerFinally(p, how)
    /\ UNCHANGED nSteps

LifeEvents == {TextDelta(<<"t">>), ToolUse("A"), ResultEvent, ErrorEvent}

LifeNext ==
    \/ CreateSession(TRUE)
    \/ \E p \in ProcIds, o \in {[kind |-> "done"]} \cup
            {[kind |-> "event", event |-> SessionCreated(s)] : s \in Sessions} :
          CreateSessionFirst(p, o)
    \/ \E s \in Sessions : FollowUp(s)
    \/ \E s \in Sessions : Cancel(s)
    \/ \E p \in ProcIds, e \in LifeEvents : ConsumerEvent(p, e)
    \/ \E p \in ProcIds, c \in ExitCodes, b \in BOOLEAN : AwaitExit(p, c, b)
    \/ \E p \in ProcIds, how \in {"return", "throw"} : RunEnds(p, how)

\* every generator that can finish does finish: the process of each run
\* terminates
LifeSpec ==
    /\ Init
    /\ [][LifeNext]_vars
    /\ \A p \in ProcIds : WF_vars(\E how \in {"return", "throw"} : RunEnds(p, how))

\* C31: every run that was registered comes to the end of its consumer: the
\* registry entry of its session is removed again (and with it, in the same
\* finally block, the slot is released and the bus marked done), once the
\* process has terminated or the run was cancelled.
C31_AcceptedRunEnds ==
    \A s \in Sessions :
        (runningProcesses[s] # NoHandle) ~> (runningProcesses[s] = NoHandle)

\* the text of the assistant text blocks of a log, in order
RECURSIVE BlocksText(_)
BlocksText(blocks) ==
    IF blocks = <<>>
    THEN <<>>
    ELSE LET b == blocks[Len(blocks)]
         IN  BlocksText(SubSeq(blocks, 1, Len(blocks) - 1)) \o
             (IF b[1] = "assistant" /\ b[2].type = "text" THEN b[2].text ELSE <<>>)

AssistantText(ms, s) == BlocksText(RoleBlocks(getMessages(ms, s)))

\* the text an event adds to the text of its run
DeltaText(event) == IF event.type = "text_delta" THEN event.text ELSE <<>>

RunsOf(s) == {p \in ProcIds : procs[p] # NoProc /\ procs[p].sid = s}

\* C33: the runs of a session do not overlap.  A follow-up is accepted only
\* when no consumer of an earlier run of the session is left, and a consumer
\* that finishes is the only run of its session and the one the registry
\* names: the entry it removes, the slot it releases and the bus it marks
\* done are its own, and no other session's entry is touched.
C33_RunsDoNotOverlap ==
    [][/\ \A s \in Sessions :
            (resp' = Response("message", "OK") /\ FollowUp(s)) =>
                /\ RunsOf(s) = {}
                /\ runningProcesses[s] = NoHandle
                /\ runningProcesses'[s] = NewProcId
       /\ (runningCount' = runningCount - 1) =>
            \A p \in ProcIds, how \in {"return", "throw"} :
                ConsumerEnd(p, how) =>
                    LET s == procs[p].sid
                    IN  /\ RunsOf(s) = {p}
                        /\ runningProcesses[s] = p
                        /\ runningProcesses' = [runningProcesses EXCEPT ![s] = NoHandle]
                        /\ \A t \in Sessions \ {s} : buses'[t] = buses[t]
                        /\ \A q \in ProcIds :
                              procs'[q] = NoProc \/ procs'[q].sid # s]_vars

\* the second run of a session has finished: two processes were started, the
\* log holds both prompts, nothing is registered or running any more
C33_Witness ==
    \E s \in Sessions :
        /\ nRuns = 2
        /\ Len(RoleBlocks(getMessages(messages, s))) >= 2
        /\ RunsOf(s) = {}
        /\ runningProcesses[s] = NoHandle
        /\ runningCount = 0
        /\ buses[s] # NoBus /\ buses[s].done

\* the first n messages of the log of session s
Below(ms, s, n) ==
    LET log == getMessages(ms, s)
    IN  SubSeq(log, 1, IF n < Len(log) THEN n ELSE Len(log))

\* run_message_offset is the length of the log when a run is registered
C34_OffsetAtRegistration ==
    [][/\ \A p \in ProcIds, s \in Sessions :
            (resp' = Response("create", "OK")
                /\ CreateSessionFirst(p, [kind |-> "event", event |-> SessionCreated(s)])) =>
                /\ store'[s].run_message_offset = 1
                /\ Len(getMessages(messages', s)) = 1
       /\ \A s \in Sessions :
            (resp' = Response("message", "OK") /\ FollowUp(s)) =>
                store'[s].run_message_offset = Len(getMessages(messages', s))]_vars

\* C34: run_message_offset is the number of messages in the log when the run
\* is registered (1 for a new session, the length after the prompt was
\* appended for a follow-up), and whatever the consumer of the run persists,
\* at an event or in its finally block, leaves the messages below the offset
\* as they were: its blocks land at index offset or above.
C34_RunWritesAboveOffset ==
    /\ C34_OffsetAtRegistration
    /\ [][\A p \in ProcIds :
            (/\ procs[p] # NoProc
             /\ procs[p].phase = "consuming"
             /\ messages'[procs[p].sid] # messages[procs[p].sid]
             /\ \/ \E event \in ConductorEvent : ConsumerEvent(p, event)
                \/ \E how \in {"return", "throw"} : ConsumerEnd(p, how)) =>
                LET s == procs[p].sid
                    offset == store[s].run_message_offset
                IN  /\ Len(getMessages(messages, s)) >= offset
                    /\ Below(messages', s, offset) = Below(messages, s, offset)]_vars

\* ---- a message file that cannot be parsed

\* What writeFileSync leaves of a file when the server dies inside the call:
\* the records written so far and the beginning of the next one.
tornText(content) == Append(content, <<"torn", <<>>>>)

\* `JSON.parse(readFileSync(filePath))` of getMessages throws a SyntaxError
getMessagesThrows(ms, sid) ==
    /\ ms[sid] # NoFile
    /\ ms[sid][Len(ms[sid])][1] = "torn"

\* The server dies while the consumer of process p is inside the
\* writeFileSync of appendContentBlock, and is started again (CrashRestart
\* with the message file of the session cut short).
CrashInWrite(p) ==
    /\ procs[p] # NoProc
    /\ procs[p].phase = "consuming"
    /\ messages' = [messages EXCEPT ![procs[p].sid] = tornText(@)]
    /\ runningCount' = 0
    /\ runningProcesses' = [s \in Sessions |-> NoHandle]
    /\ procs' = [q \in ProcIds |-> NoProc]
    /\ buses' = [s \in Sessions |-> NoBus]
    /\ cleanupTimers' = [s \in Sessions |-> NoTimer]
    /\ timers' = {}
    /\ subs' = [l \in Listeners |-> NoSub]
    /\ received' = [l \in Listeners |-> <<>>]
    /\ store' = recoverSessions(store).store
    /\ resp' = Response("startup", "RECOVERED")
    /\ UNCHANGED <<busGen, nCalls, nRuns, nSteps, workspaces>>
    /\ UNCHANGED <<adapterVars, diskVars>>

\* POST /sessions/:id/messages whose appendContentBlock throws: getMessages
\* cannot parse the message file, or writeFileSync fails (ioError: the disk
\* is full, the file is not writable).  The handler has taken its slot and
\* stored the status by then; the exception leaves the handler and the
\* request is answered 500.  Without an exception it is FollowUp.
FollowUpOrThrow(sessionId, ioError) ==
    IF /\ getSession(store, sessionId) # NoSession
       /\ ~SessionBusy(sessionId)
       /\ ~AtCapacity
       /\ getMessagesThrows(messages, sessionId) \/ ioError
    THEN /\ Step
         /\ runningCount' = runningCount + 1
         /\ store' = updateSessionStatus(store, sessionId, "running")
         /\ resp' = Response("message", "INTERNAL_SERVER_ERROR")
         /\ UNCHANGED <<busVars, messages, runningProcesses, procs, nRuns, workspaces>>
         /\ UNCHANGED <<adapterVars, diskVars>>
    ELSE FollowUp(sessionId)

FaultEvents == {TextDelta(<<"t">>), ToolUse("A"), ResultEvent}

FaultNext ==
    \/ CreateSession(TRUE)
    \/ \E p \in ProcIds, s \in Sessions :
          CreateSessionFirst(p, [kind |-> "event", event |-> SessionCreated(s)])
    \/ \E p \in ProcIds, e \in FaultEvents : ConsumerEvent(p, e)
    \/ \E p \in ProcIds : ConsumerEnd(p, "return")
    \/ \E p \in ProcIds : CrashInWrite(p)
    \/ \E s \in Sessions, ioError \in BOOLEAN : FollowUpOrThrow(s, ioError)
    \/ \E s \in Sessions : Cancel(s)

FaultSpec == Init /\ [][FaultNext]_vars

\* the creates that have spawned a process and wait for its first event
AwaitingFirst == {p \in ProcIds : procs[p] # NoProc /\ procs[p].phase = "first"}

\* C35: in every reachable state runningCount is the number of registry
\* entries plus the number of creates waiting for their first event, and it
\* is not negative: no path takes a slot without giving it back.
C35_CountMatchesRegistry ==
    /\ runningCount = Cardinality(Registered) + Cardinality(AwaitingFirst)
    /\ runningCount >= 0

\* C36: a session whose stored status is running has a registry entry, and
\* a session with a registry entry has status running or cancelled; the
\* finally block of a consumer leaves its session idle or cancelled.  No
\* session is left in running without a live run.
C36_RunningOnlyWhileRegistered ==
    /\ [](\A s \in Sessions :
            /\ Status(store, s) = "running" => runningProcesses[s] # NoHandle
            /\ runningProcesses[s] # NoHandle =>
                  Status(store, s) \in {"running", "cancelled"})
    /\ [][(runningCount' = runningCount - 1) =>
            \A p \in ProcIds, how \in {"return", "throw"} :
                ConsumerFinally(p, how) =>
                    /\ runningProcesses'[procs[p].sid] = NoHandle
                    /\ Status(store', procs[p].sid) \in {"idle", "cancelled"}]_vars

\* C37: while a session has a registry entry it has a bus entry that is not
\* marked done and that no pending cleanup timer is aimed at, so no timer of
\* an earlier run removes it; every event the consumer publishes is added to
\* the buffer of that entry.
C37_BusLivesWhileRunInFlight ==
    [][/\ \A s \in Sessions :
            runningProcesses'[s] # NoHandle =>
                /\ buses'[s] # NoBus
                /\ ~buses'[s].done
                /\ cleanupTimers'[s] = NoTimer
                /\ \A t \in timers' : t.sid # s
       /\ (resp' = NoResp /\ runningCount' = runningCount /\ nSteps' # nSteps) =>
            \A p \in ProcIds, event \in ConductorEvent :
                (ConsumerEvent(p, event) /\ ~skipSessionCreated(p, event)) =>
                    buses'[procs[p].sid].buffer
                        = Append(buses[procs[p].sid].buffer, event)]_vars

\* a follow-up run has published an event on the bus entry that replaced the
\* one of the first run, whose cleanup timer was cleared
C37_Witness ==
    \E s \in Sessions :
        /\ runningProcesses[s] # NoHandle
        /\ nRuns = 2
        /\ procs[runningProcesses[s]].skip
        /\ Len(buses[s].buffer) = 1
        /\ timers = {}

\* the agent processes that were started and have not ended
LiveProcesses == {p \in ProcIds : procs[p] # NoProc}

\* C38: every live agent process belongs to a create that still waits for
\* its first event or is the process the run registry names for its session
\* (so that cancel and forceAbortAll reach it), and there are never more
\* live processes than the concurrency ceiling allows.
C38_NoProcessOutsideRegistry ==
    /\ \A p \in LiveProcesses :
          \/ procs[p].phase = "first"
          \/ procs[p].sid \in Sessions /\ runningProcesses[procs[p].sid] = p
    /\ Cardinality(LiveProcesses) <= Concurrency

\* C39: an accepted follow-up stores its prompt as the only block of a new
\* user message at the end of the log and leaves the messages of the earlier
\* runs as they were, whatever the last message of the log was.
C39_PromptStartsNewMessage ==
    [][\A s \in Sessions :
          (resp' = Response("message", "OK") /\ FollowUp(s)) =>
              getMessages(messages', s) =
                  Append(getMessages(messages, s),
                         [role |-> "user", content |-> <<TextBlock(Prompt)>>])]_vars

\* the bus entry of session s is the same object before and after the step
SameEntry(s) ==
    /\ buses[s] # NoBus
    /\ buses'[s] # NoBus
    /\ buses'[s].gen = buses[s].gen

====
